---- MODULE Spec2Model ----
(***************************************************************************)
(* A model of nexical/cli-core: command discovery (CommandLoader), the     *)
(* router built by CLI.start (grouping, grammar registration, dispatch     *)
(* closures, error paths) and the help command.                            *)
(*                                                                         *)
(* Strings are sequences of one-character strings, so that join, split,    *)
(* endsWith, basename and extname are computed as the code computes them.  *)
(* Asynchronous code is modelled at the granularity of the JavaScript job  *)
(* queue: a synchronous segment runs to completion inside one action, an   *)
(* await or a .then() appends a job to jobs, and I/O completes only when   *)
(* the job queue is empty.                                                 *)
(***************************************************************************)
EXTENDS Integers, Sequences, FiniteSets, TLC

VARIABLES
    fs,             \* the file system: the search roots and their directory trees
    useConfig,      \* config.searchDirectories is given (else the default lookup)
    argv,           \* process.argv.slice(2)
    phase,          \* position of CLI.start
    commandsDirs,   \* the search roots start() decided to load (indexes into fs)
    rootIdx,        \* index into commandsDirs of the root being loaded
    stack,          \* activation frames of CommandLoader.scan
    importing,      \* the module load in flight: a sequence of length <= 1
    commands,       \* CommandLoader.commands
    importLog,      \* files handed to the importer, in call order
    loadErrors,     \* paths logged by logger.error in scan
    nextObj,        \* number of command objects constructed so far
    loadedCommands, \* CLI.loadedCommands
    HelpCommandClass, \* CLI.HelpCommandClass
    grammar,        \* entries registered with the parser, in order
    jobs,           \* the microtask queue
    io,             \* pending I/O completions
    call,           \* what the parser handed the dispatch closure it invoked
    run,            \* the target command instance of this dispatch
    out,            \* everything printed or signalled, in order
    helpers,        \* the help command instances runHelp made, in order
    exitCode        \* <<>> while the process runs, else <<status>>

vars == <<fs, useConfig, argv, phase, commandsDirs, rootIdx, stack, importing, commands,
          importLog, loadErrors, nextObj, loadedCommands, HelpCommandClass,
          grammar, jobs, io, call, run, out, helpers, exitCode>>

(***************************************************************************)
(* Bounds                                                                  *)
(***************************************************************************)
MaxNodes == 3
MaxDepth == 2
MaxArgv == 3
MaxRegistry == 2

(***************************************************************************)
(* Strings                                                                 *)
(***************************************************************************)
SP == " "
EmptyStr == <<>>

StartsWith(s, p) ==
    /\ Len(p) <= Len(s)
    /\ SubSeq(s, 1, Len(p)) = p

EndsWith(s, p) ==
    /\ Len(p) <= Len(s)
    /\ SubSeq(s, Len(s) - Len(p) + 1, Len(s)) = p

\* Array.prototype.join
RECURSIVE Join(_, _)
Join(parts, sep) ==
    IF Len(parts) = 0 THEN EmptyStr
    ELSE IF Len(parts) = 1 THEN parts[1]
    ELSE parts[1] \o sep \o Join(Tail(parts), sep)

\* index of the first occurrence of character c in s, 0 if none
RECURSIVE IndexOf(_, _, _)
IndexOf(s, c, from) ==
    IF from > Len(s) THEN 0
    ELSE IF s[from] = c THEN from
    ELSE IndexOf(s, c, from + 1)

\* String.prototype.split on a one-character separator
RECURSIVE Split(_, _)
Split(s, c) ==
    LET k == IndexOf(s, c, 1) IN
    IF k = 0 THEN <<s>>
    ELSE <<SubSeq(s, 1, k - 1)>> \o Split(SubSeq(s, k + 1, Len(s)), c)

\* index of the last "." of s, 0 if none
RECURSIVE LastDot(_, _)
LastDot(s, from) ==
    IF from < 1 THEN 0
    ELSE IF s[from] = "." THEN from
    ELSE LastDot(s, from - 1)

\* path.extname of a file name: from the last "." on; empty when there is
\* no "." or the only "." is the first character
ExtName(file) ==
    LET k == LastDot(file, Len(file)) IN
    IF k <= 1 THEN EmptyStr ELSE SubSeq(file, k, Len(file))

\* path.basename(file, ext) of a file name without directory part
BaseName(file, ext) ==
    IF Len(ext) > 0 /\ Len(ext) < Len(file) /\ EndsWith(file, ext)
    THEN SubSeq(file, 1, Len(file) - Len(ext))
    ELSE file

\* path.join(dir, file)
PathJoin(dir, file) == dir \o <<"/">> \o file

DotTs == <<".", "t", "s">>
DotJs == <<".", "j", "s">>
DotDTs == <<".", "d", ".", "t", "s">>
IndexName == <<"i", "n", "d", "e", "x">>
HelpName == <<"h", "e", "l", "p">>

(***************************************************************************)
(* Command classes: the static fields the router and the help command read *)
(* (BaseCommand.usage, description, args, requiresProject) and whether the *)
(* class keeps BaseCommand.init or overrides the hook.                     *)
(***************************************************************************)
ArgX == <<"x">>
ArgY == <<"y">>
ArgF == <<"f", ".", ".", ".">>
ArgCommand == <<"c", "o", "m", "m", "a", "n", "d", ".", ".", ".">>
\* the key HelpCommand.run reads: options.command
CommandKey == <<"c", "o", "m", "m", "a", "n", "d">>

NoClass == "NoClass"

ClassIds == {"Help", "Plain", "Greet", "Copy", "Cat", "Quick", "Proj"}

\* args.args of each class: [name, required]
ClassArgs(cls) ==
    CASE cls = "Help"  -> << [name |-> ArgCommand, required |-> FALSE] >>
      [] cls = "Greet" -> << [name |-> ArgX, required |-> TRUE] >>
      [] cls = "Copy"  -> << [name |-> ArgX, required |-> TRUE],
                             [name |-> ArgY, required |-> TRUE] >>
      [] cls = "Cat"   -> << [name |-> ArgF, required |-> TRUE] >>
      [] cls = "Quick" -> << [name |-> ArgX, required |-> TRUE],
                             [name |-> ArgY, required |-> FALSE] >>
      [] OTHER         -> << >>

\* args.options of each class: [name, default]
O_repoSpec == <<"-", "-", "r", "e", "p", "o", " ", "<", "u", "r", "l", ">">>
ValTrue == <<"t", "r", "u", "e">>
ValFalse == <<"f", "a", "l", "s", "e">>
ValRepo == <<"g", "i", "t">>
ClassOptions(cls) ==
    IF cls = "Quick"
    THEN << [name |-> <<"-", "-", "d", "r", "y", "-", "r", "u", "n">>, default |-> ValFalse],
            [name |-> O_repoSpec, default |-> ValRepo] >>
    ELSE << >>

\* static usage; '' unless the class sets it
ClassUsage(cls) ==
    IF cls = "Plain" THEN <<"p", " ", "[", "o", "p", "t", "s", "]">> ELSE EmptyStr

\* static requiresProject
RequiresProject(cls) == cls = "Proj"

\* TRUE when the class overrides init() with a hook that does no I/O
OverridesInit(cls) == cls = "Quick"

(***************************************************************************)
(* The file system.  A listing is what readdirSync returns for a           *)
(* directory, in its order; an entry is a directory (with its own listing) *)
(* or a file.  A file's module is what importing it gives: "throw" (the    *)
(* import rejects), "falsy" (no default export, or null), "notctor" (a     *)
(* truthy default export that new cannot construct) or a class.            *)
(***************************************************************************)
FileEntry(name, module) ==
    [name |-> name, isDir |-> FALSE, module |-> module, children |-> <<>>]

DirEntry(name, children) ==
    [name |-> name, isDir |-> TRUE, module |-> "none", children |-> children]

Root(dir, exists, listing) == [dir |-> dir, exists |-> exists, listing |-> listing]

RECURSIVE ListingSize(_)
ListingSize(l) ==
    IF Len(l) = 0 THEN 0
    ELSE 1 + ListingSize(l[1].children) + ListingSize(Tail(l))

ListingNames(l) == {l[i].name : i \in 1..Len(l)}

F_a_ts == <<"a", ".", "t", "s">>
F_b_js == <<"b", ".", "j", "s">>
F_index_ts == <<"i", "n", "d", "e", "x", ".", "t", "s">>
F_index_js == <<"i", "n", "d", "e", "x", ".", "j", "s">>
F_a_d_ts == <<"a", ".", "d", ".", "t", "s">>
F_r_md == <<"r", ".", "m", "d">>
F_help_ts == <<"h", "e", "l", "p", ".", "t", "s">>
F_constructor_ts == <<"c", "o", "n", "s", "t", "r", "u", "c", "t", "o", "r", ".", "t", "s">>
D_m == <<"m">>
R1 == <<"/", "r">>
R2 == <<"/", "q">>

\* what a module of the bounded file systems can be
LoadModules == {"throw", "falsy", "notctor", "Plain"}

LoadFiles ==
    {FileEntry(n, m) : n \in {F_a_ts, F_index_js}, m \in LoadModules}
        \cup {FileEntry(F_a_d_ts, "none"), FileEntry(F_r_md, "none")}

\* every listing of depth <= d with at most n entries in all, names distinct
RECURSIVE BoundedListings(_, _)
BoundedListings(d, n) ==
    IF n = 0 THEN {<<>>}
    ELSE LET firsts == LoadFiles \cup
                 (IF d = 0 THEN {}
                  ELSE {DirEntry(D_m, ch) : ch \in BoundedListings(d - 1, n - 1)})
         IN {<<>>} \cup UNION {
                {<<e>> \o rest : rest \in
                    {r \in BoundedListings(d, n - 1 - ListingSize(e.children)) :
                        e.name \notin ListingNames(r)}} : e \in firsts}

\* one or two search roots, the second possibly missing, MaxNodes entries in all
BoundedFileSystems ==
    LET one == {<<Root(R1, TRUE, l)>> : l \in BoundedListings(MaxDepth, MaxNodes)}
        two == UNION {
                 {<<Root(R1, TRUE, l1), Root(R2, ex, l2)>> :
                     ex \in BOOLEAN,
                     l2 \in BoundedListings(MaxDepth, MaxNodes - 1 - ListingSize(l1))} :
                 l1 \in BoundedListings(MaxDepth, MaxNodes - 1)}
    IN one \cup two


(***************************************************************************)
(* CLI.start, first part: choosing the search roots                        *)
(***************************************************************************)
NoImport == <<>>
NoExit == <<>>
NoRun == <<>>
NoCall == <<>>

Running == exitCode = NoExit

\* the first element of seq satisfying Test, as a sequence of length <= 1
RECURSIVE FirstExisting(_, _)
FirstExisting(roots, i) ==
    IF i > Len(roots) THEN <<>>
    ELSE IF roots[i].exists THEN <<i>>
    ELSE FirstExisting(roots, i + 1)

\* this.name: config.commandName, 'app' when the configuration is empty
ProgramName == IF useConfig THEN <<"n", "x">> ELSE <<"a", "p", "p">>

\* config.searchDirectories when given, else the first existing default directory
ChooseDirs(roots, configured) ==
    IF configured /\ Len(roots) > 0
    THEN [i \in 1..Len(roots) |-> i]
    ELSE FirstExisting(roots, 1)

StartChooseDirs ==
    /\ Running
    /\ phase = "start"
    /\ commandsDirs' = ChooseDirs(fs, useConfig)
    /\ rootIdx' = 1
    /\ phase' = "load"
    /\ UNCHANGED <<fs, useConfig, argv, stack, importing, commands, importLog,
                   loadErrors, nextObj, loadedCommands, HelpCommandClass,
                   grammar, jobs, io, call, run, out, helpers, exitCode>>

(***************************************************************************)
(* CommandLoader                                                           *)
(***************************************************************************)
Frame(dir, prefix, files) == [dir |-> dir, prefix |-> prefix, files |-> files, i |-> 1]

\* the file filter of scan: .ts or .js, and not .d.ts
IsCommandFile(file) ==
    /\ EndsWith(file, DotTs) \/ EndsWith(file, DotJs)
    /\ ~EndsWith(file, DotDTs)

\* scan without the extension stripped
CommandPartsKeepsExt(prefix, file) ==
    IF file # IndexName THEN Append(prefix, file) ELSE prefix

\* commandParts of a file, as scan computes them
CommandParts(prefix, file) ==
    LET name == BaseName(file, ExtName(file)) IN
    IF name # IndexName THEN Append(prefix, name) ELSE prefix

\* scan without the root-level "continue"
SkipsIndexNever(prefix, file) == FALSE

\* the "continue" of scan: an index file that maps to nothing
SkipsIndex(prefix, file) ==
    /\ BaseName(file, ExtName(file)) = IndexName
    /\ Len(prefix) = 0

\* the entry scan pushes for a module whose default export is cls
LoadedCommand(commandParts, fullPath, cls, obj) ==
    [command |-> Join(commandParts, <<SP>>), path |-> fullPath,
     instance |-> obj, class |-> cls]

\* scan without the "if (CommandClass)" test
RegisterModuleUnchecked(cmds, module, commandParts, fullPath, obj) ==
    IF module # "throw"
    THEN Append(cmds, LoadedCommand(commandParts, fullPath, module, obj))
    ELSE cmds

\* the try block of scan once the import has settled: the registry afterwards
RegisterModule(cmds, module, commandParts, fullPath, obj) ==
    IF module \in ClassIds
    THEN Append(cmds, LoadedCommand(commandParts, fullPath, module, obj))
    ELSE cmds

LogsLoadError(module) == module \in {"throw", "notctor"}

LoaderVarsUnchanged ==
    UNCHANGED <<fs, useConfig, argv, commandsDirs, loadedCommands,
                HelpCommandClass, grammar, jobs, io, call, run, out, helpers, exitCode>>

\* a loop that does not wait for the import it started
LoadingUnawaited == Running /\ phase = "load"

\* the loops of load and scan go on only when no import is awaited
Loading == Running /\ phase = "load" /\ importing = NoImport

Top == stack[Len(stack)]
TopEntry == Top.files[Top.i]

\* load(commandsDir) for a directory that does not exist: return []
LoadMissingRoot ==
    /\ Loading
    /\ stack = <<>>
    /\ rootIdx <= Len(commandsDirs)
    /\ ~fs[commandsDirs[rootIdx]].exists
    /\ rootIdx' = rootIdx + 1
    /\ UNCHANGED <<phase, stack, importing, commands, importLog, loadErrors, nextObj>>
    /\ LoaderVarsUnchanged

\* load(commandsDir): scan(commandsDir, [])
LoadRoot ==
    /\ Loading
    /\ stack = <<>>
    /\ rootIdx <= Len(commandsDirs)
    /\ fs[commandsDirs[rootIdx]].exists
    /\ stack' = <<Frame(fs[commandsDirs[rootIdx]].dir, <<>>,
                        fs[commandsDirs[rootIdx]].listing)>>
    /\ UNCHANGED <<phase, rootIdx, importing, commands, importLog, loadErrors, nextObj>>
    /\ LoaderVarsUnchanged

\* a directory entry: await this.scan(fullPath, [...prefix, file])
ScanDirectory ==
    /\ Loading
    /\ stack # <<>>
    /\ Top.i <= Len(Top.files)
    /\ TopEntry.isDir
    /\ stack' = Append(stack, Frame(PathJoin(Top.dir, TopEntry.name),
                                    Append(Top.prefix, TopEntry.name),
                                    TopEntry.children))
    /\ UNCHANGED <<phase, rootIdx, importing, commands, importLog, loadErrors, nextObj>>
    /\ LoaderVarsUnchanged

\* a file that is not a command file, or a root-level index file
ScanSkipFile ==
    /\ Loading
    /\ stack # <<>>
    /\ Top.i <= Len(Top.files)
    /\ ~TopEntry.isDir
    /\ ~IsCommandFile(TopEntry.name) \/ SkipsIndex(Top.prefix, TopEntry.name)
    /\ stack' = [stack EXCEPT ![Len(stack)].i = @ + 1]
    /\ UNCHANGED <<phase, rootIdx, importing, commands, importLog, loadErrors, nextObj>>
    /\ LoaderVarsUnchanged

\* a command file: await this.importer(fullPath)
ImportStart ==
    /\ Loading
    /\ stack # <<>>
    /\ Top.i <= Len(Top.files)
    /\ ~TopEntry.isDir
    /\ IsCommandFile(TopEntry.name)
    /\ ~SkipsIndex(Top.prefix, TopEntry.name)
    /\ importing' = <<[fullPath |-> PathJoin(Top.dir, TopEntry.name),
                       commandParts |-> CommandParts(Top.prefix, TopEntry.name),
                       module |-> TopEntry.module]>>
    /\ importLog' = Append(importLog, PathJoin(Top.dir, TopEntry.name))
    /\ UNCHANGED <<phase, rootIdx, stack, commands, loadErrors, nextObj>>
    /\ LoaderVarsUnchanged

\* the import settles: the rest of the try block, or its catch
ImportSettle ==
    /\ Running
    /\ phase = "load"
    /\ importing # NoImport
    /\ commands' = RegisterModule(commands, importing[1].module,
                                  importing[1].commandParts,
                                  importing[1].fullPath, nextObj + 1)
    /\ nextObj' = IF importing[1].module \in ClassIds THEN nextObj + 1 ELSE nextObj
    /\ loadErrors' = IF LogsLoadError(importing[1].module)
                     THEN Append(loadErrors, importing[1].fullPath)
                     ELSE loadErrors
    /\ importing' = NoImport
    /\ stack' = [stack EXCEPT ![Len(stack)].i = @ + 1]
    /\ UNCHANGED <<phase, rootIdx, importLog>>
    /\ LoaderVarsUnchanged

\* the for loop of scan ends: return to the caller (scan of the parent, or load)
ScanReturn ==
    /\ Loading
    /\ stack # <<>>
    /\ Top.i > Len(Top.files)
    /\ stack' = IF Len(stack) = 1 THEN <<>>
                ELSE [SubSeq(stack, 1, Len(stack) - 1)
                         EXCEPT ![Len(stack) - 1].i = @ + 1]
    /\ rootIdx' = IF Len(stack) = 1 THEN rootIdx + 1 ELSE rootIdx
    /\ UNCHANGED <<phase, importing, commands, importLog, loadErrors, nextObj>>
    /\ LoaderVarsUnchanged

\* a start() that goes on to grouping once the first root is loaded
LoadDoneAfterFirstRoot ==
    /\ Loading
    /\ stack = <<>>
    /\ rootIdx > 1 \/ rootIdx > Len(commandsDirs)
    /\ loadedCommands' = commands
    /\ phase' = "group"
    /\ UNCHANGED <<fs, useConfig, argv, commandsDirs, rootIdx, stack, importing,
                   commands, importLog, loadErrors, nextObj, HelpCommandClass,
                   grammar, jobs, io, call, run, out, helpers, exitCode>>

\* every root is loaded: this.loadedCommands = this.loader.getCommands()
LoadDone ==
    /\ Loading
    /\ stack = <<>>
    /\ rootIdx > Len(commandsDirs)
    /\ loadedCommands' = commands
    /\ phase' = "group"
    /\ UNCHANGED <<fs, useConfig, argv, commandsDirs, rootIdx, stack, importing,
                   commands, importLog, loadErrors, nextObj, HelpCommandClass,
                   grammar, jobs, io, call, run, out, helpers, exitCode>>

InitCommon ==
    /\ phase = "start"
    /\ commandsDirs = <<>>
    /\ rootIdx = 1
    /\ stack = <<>>
    /\ importing = NoImport
    /\ commands = <<>>
    /\ importLog = <<>>
    /\ loadErrors = <<>>
    /\ nextObj = 0
    /\ loadedCommands = <<>>
    /\ HelpCommandClass = NoClass
    /\ grammar = <<>>
    /\ jobs = <<>>
    /\ io = {}
    /\ call = NoCall
    /\ run = NoRun
    /\ out = <<>>
    /\ helpers = <<>>
    /\ exitCode = NoExit

\* discovery alone, over every bounded file system
InitLoad ==
    /\ fs \in BoundedFileSystems
    /\ useConfig \in BOOLEAN
    /\ argv = <<>>
    /\ InitCommon

NextLoad ==
    \/ StartChooseDirs
    \/ LoadMissingRoot
    \/ LoadRoot
    \/ ScanDirectory
    \/ ScanSkipFile
    \/ ImportStart
    \/ ImportSettle
    \/ ScanReturn
    \/ LoadDone

SpecLoad == InitLoad /\ [][NextLoad]_vars

(***************************************************************************)
(* CLI.start, second part: grouping and grammar registration               *)
(***************************************************************************)
\* cmd.command.split(' ')[0]
RootOf(cmd) == Split(cmd.command, SP)[1]

\* the keys of commandGroups, in insertion order
RECURSIVE GroupRoots(_, _)
GroupRoots(cmds, seen) ==
    IF Len(cmds) = 0 THEN <<>>
    ELSE IF RootOf(cmds[1]) \in seen THEN GroupRoots(Tail(cmds), seen)
    ELSE <<RootOf(cmds[1])>> \o GroupRoots(Tail(cmds), seen \cup {RootOf(cmds[1])})

\* commandGroups[root]: the members, in registry order
RECURSIVE GroupOf(_, _)
GroupOf(cmds, root) ==
    IF Len(cmds) = 0 THEN <<>>
    ELSE (IF RootOf(cmds[1]) = root THEN <<cmds[1]>> ELSE <<>>)
            \o GroupOf(Tail(cmds), root)

\* this.loadedCommands.find(c => c.command === 'help'), as its class
\* a lookup that settles for the first command of the group
FindCommandAny(cmds, name) == IF Len(cmds) = 0 THEN <<>> ELSE <<cmds[1]>>

RECURSIVE FindCommand(_, _)
FindCommand(cmds, name) ==
    IF Len(cmds) = 0 THEN <<>>
    ELSE IF cmds[1].command = name THEN <<cmds[1]>>
    ELSE FindCommand(Tail(cmds), name)

HelpClassOf(cmds) ==
    IF FindCommand(cmds, HelpName) = <<>> THEN NoClass
    ELSE FindCommand(cmds, HelpName)[1].class

Dots == <<".", ".", ".">>
IsVariadic(arg) == EndsWith(arg.name, Dots)
CleanName(arg) ==
    IF IsVariadic(arg) THEN SubSeq(arg.name, 1, Len(arg.name) - 3) ELSE arg.name

\* grammar slots that write a required argument in angle brackets
RECURSIVE LeafSlotsRequired(_)
LeafSlotsRequired(args) ==
    IF Len(args) = 0 THEN EmptyStr
    ELSE (IF args[1].required
          THEN <<" ", "<">> \o (IF IsVariadic(args[1]) THEN Dots ELSE EmptyStr)
                   \o CleanName(args[1]) \o <<">">>
          ELSE <<" ", "[">> \o (IF IsVariadic(args[1]) THEN Dots ELSE EmptyStr)
                   \o CleanName(args[1]) \o <<"]">>)
         \o LeafSlotsRequired(Tail(args))

\* the grammar slots of a leaf command: always optional brackets
RECURSIVE LeafSlots(_)
LeafSlots(args) ==
    IF Len(args) = 0 THEN EmptyStr
    ELSE (IF IsVariadic(args[1])
          THEN <<" ", "[", ".", ".", ".">> \o CleanName(args[1]) \o <<"]">>
          ELSE <<" ", "[">> \o CleanName(args[1]) \o <<"]">>)
         \o LeafSlots(Tail(args))

NamespaceSlots ==
    <<" ", "[", "s", "u", "b", "c", "o", "m", "m", "a", "n", "d", "]",
      " ", "[", ".", ".", ".", "a", "r", "g", "s", "]">>

\* commandGroups is an object literal: a key it inherits from Object.prototype
\* reads as a truthy value that is no array
InheritedKeys ==
    {<<"c", "o", "n", "s", "t", "r", "u", "c", "t", "o", "r">>,
     <<"t", "o", "S", "t", "r", "i", "n", "g">>,
     <<"v", "a", "l", "u", "e", "O", "f">>}

\* the grouping loop throws a TypeError: commandGroups[root] is set, so it is
\* not replaced by [], and it has no push
GroupingThrows(cmds) == \E i \in 1..Len(cmds) : RootOf(cmds[i]) \in InheritedKeys

IsLeafGroup(cmds, root) == Len(cmds) = 1 /\ cmds[1].command = root

O_rootDirSpec == <<"-", "-", "r", "o", "o", "t", "-", "d", "i", "r", " ", "<", "p", "a", "t", "h", ">">>
O_debugSpec == <<"-", "-", "d", "e", "b", "u", "g">>
O_helpSpec == <<"-", "-", "h", "e", "l", "p", ",", " ", "-", "h">>

\* registerGlobalOptions: the options it registers with one parser command
RegisteredGlobals == <<O_rootDirSpec, O_debugSpec, O_helpSpec>>

\* the raw names of cacCommand.options after a leaf registration: the options
\* of the class, then those of registerGlobalOptions
RegisteredOptions(cls) ==
    [i \in 1..Len(ClassOptions(cls)) |-> ClassOptions(cls)[i].name] \o RegisteredGlobals

\* the this.cli.command(...) call made for one group
GrammarEntry(cmds, root) ==
    IF IsLeafGroup(cmds, root)
    THEN [kind |-> "leaf", root |-> root,
          rawName |-> cmds[1].command \o LeafSlots(ClassArgs(cmds[1].class)),
          options |-> RegisteredOptions(cmds[1].class),
          cmds |-> cmds, allowUnknownOptions |-> FALSE]
    ELSE [kind |-> "namespace", root |-> root,
          rawName |-> root \o NamespaceSlots,
          options |-> RegisteredGlobals,
          cmds |-> cmds, allowUnknownOptions |-> TRUE]

RouterVarsUnchanged ==
    UNCHANGED <<fs, useConfig, argv, commandsDirs, rootIdx, stack, importing,
                commands, importLog, loadErrors, loadedCommands>>

\* a grouping that reverses the registry in place
GroupCommandsReversing ==
    /\ Running
    /\ phase = "group"
    /\ HelpCommandClass' = HelpClassOf(loadedCommands)
    /\ loadedCommands' = [i \in 1..Len(loadedCommands) |->
                             loadedCommands[Len(loadedCommands) + 1 - i]]
    /\ phase' = "register"
    /\ UNCHANGED <<grammar, jobs, io, call, run, out, helpers, exitCode, nextObj>>
    /\ UNCHANGED <<fs, useConfig, argv, commandsDirs, rootIdx, stack, importing,
                   commands, importLog, loadErrors>>

\* the help lookup and the grouping loop; when the loop throws, start() rejects
\* and nothing is registered
GroupCommands ==
    /\ Running
    /\ phase = "group"
    /\ HelpCommandClass' = HelpClassOf(loadedCommands)
    /\ phase' = IF GroupingThrows(loadedCommands) THEN "threw" ELSE "register"
    /\ UNCHANGED <<grammar, jobs, io, call, run, out, helpers, exitCode, nextObj>>
    /\ RouterVarsUnchanged

\* one iteration of the loop over Object.entries(commandGroups)
RegisterGroup ==
    /\ Running
    /\ phase = "register"
    /\ Len(grammar) < Len(GroupRoots(loadedCommands, {}))
    /\ LET root == GroupRoots(loadedCommands, {})[Len(grammar) + 1]
       IN grammar' = Append(grammar, GrammarEntry(GroupOf(loadedCommands, root), root))
    /\ UNCHANGED <<phase, HelpCommandClass, jobs, io, call, run, out, helpers, exitCode, nextObj>>
    /\ RouterVarsUnchanged

\* the loop is over: the global help option and the version are registered
RegisterGlobals ==
    /\ Running
    /\ phase = "register"
    /\ Len(grammar) = Len(GroupRoots(loadedCommands, {}))
    /\ phase' = "intercept"
    /\ UNCHANGED <<grammar, HelpCommandClass, jobs, io, call, run, out, helpers, exitCode, nextObj>>
    /\ RouterVarsUnchanged

(***************************************************************************)
(* The running process: output, the job queue, process.exit                *)
(*                                                                         *)
(* A synchronous segment is computed on a record m of the variables it     *)
(* writes; process.exit ends the process, so nothing after it in the       *)
(* segment has any effect.                                                 *)
(***************************************************************************)
Ev(t, a, k) == [t |-> t, a |-> a, k |-> k]
Job(k, x) == [k |-> k, x |-> x]

Machine == [out |-> out, helpers |-> helpers, jobs |-> jobs, io |-> io, nextObj |-> nextObj,
            run |-> run, exitCode |-> exitCode]

Alive(m) == m.exitCode = NoExit

Emit(m, ev) == IF Alive(m) THEN [m EXCEPT !.out = Append(@, ev)] ELSE m

PushJob(m, job) == IF Alive(m) THEN [m EXCEPT !.jobs = Append(@, job)] ELSE m

StartIo(m, what) == IF Alive(m) THEN [m EXCEPT !.io = @ \cup {what}] ELSE m

\* process.exit(code)
ProcessExit(m, code) ==
    IF Alive(m)
    THEN [m EXCEPT !.exitCode = <<code>>, !.out = Append(@, Ev("exit", <<code>>, "exit"))]
    ELSE m

Commit(m) ==
    /\ out' = m.out
    /\ helpers' = m.helpers
    /\ jobs' = m.jobs
    /\ io' = m.io
    /\ nextObj' = m.nextObj
    /\ run' = m.run
    /\ exitCode' = m.exitCode

(***************************************************************************)
(* HelpCommand.run: which of its four outcomes a query gets                *)
(***************************************************************************)
HasExactMatch(cmds, query) == \E i \in 1..Len(cmds) : cmds[i].command = query

HasNamespaceMatch(cmds, query) ==
    \E i \in 1..Len(cmds) : StartsWith(cmds[i].command, query \o <<SP>>)

\* a resolution that tries the namespace before the exact match
HelpOutcomeNamespaceFirst(cmds, commandParts) ==
    LET query == Join(commandParts, <<SP>>) IN
    IF query = EmptyStr THEN "global"
    ELSE IF HasNamespaceMatch(cmds, query) THEN "namespace"
    ELSE IF HasExactMatch(cmds, query) THEN "command"
    ELSE "unknown"

HelpOutcome(cmds, commandParts) ==
    LET query == Join(commandParts, <<SP>>) IN
    IF query = EmptyStr THEN "global"
    ELSE IF HasExactMatch(cmds, query) THEN "command"
    ELSE IF HasNamespaceMatch(cmds, query) THEN "namespace"
    ELSE "unknown"

\* commands.filter(c => c.command.startsWith(query + ' ')), as the paths
NamespaceMatches(cmds, query) ==
    LET hits == SelectSeq(cmds, LAMBDA c : StartsWith(c.command, query \o <<SP>>))
    IN [i \in 1..Len(hits) |-> hits[i].command]

\* the paths printGlobalHelp lists
AllPaths(cmds) == [i \in 1..Len(cmds) |-> cmds[i].command]

\* getRawCLI().commands.find(c => c.name === query): the parser's record whose
\* name, the raw name without its brackets, is the query
RECURSIVE CacCommand(_, _)
CacCommand(entries, query) ==
    IF Len(entries) = 0 THEN <<>>
    ELSE IF entries[1].root = query THEN <<entries[1]>>
    ELSE CacCommand(Tail(entries), query)

\* a usage token that writes every argument as optional
UsageSlotOptional(arg) ==
    IF IsVariadic(arg)
    THEN <<" ", "[", ".", ".", ".">> \o CleanName(arg) \o <<"]">>
    ELSE <<" ", "[">> \o CleanName(arg) \o <<"]">>

\* the token printCommandHelp adds to the usage for one argument
UsageSlot(arg) ==
    IF arg.required
    THEN (IF IsVariadic(arg)
          THEN <<" ", "<", ".", ".", ".">> \o CleanName(arg) \o <<">">>
          ELSE <<" ", "<">> \o CleanName(arg) \o <<">">>)
    ELSE (IF IsVariadic(arg)
          THEN <<" ", "[", ".", ".", ".">> \o CleanName(arg) \o <<"]">>
          ELSE <<" ", "[">> \o CleanName(arg) \o <<"]">>)

RECURSIVE UsageSlots(_)
UsageSlots(args) ==
    IF Len(args) = 0 THEN EmptyStr ELSE UsageSlot(args[1]) \o UsageSlots(Tail(args))

\* the usage line of printCommandHelp and where it comes from
UsageOf(cmd, cacCmd) ==
    IF ClassUsage(cmd.class) # EmptyStr
    THEN Ev("usage", <<ClassUsage(cmd.class)>>, "static")
    ELSE IF cacCmd # <<>>
    THEN Ev("usage", <<cacCmd[1].rawName>>, "parser")
    ELSE Ev("usage", <<cmd.command \o UsageSlots(ClassArgs(cmd.class))>>, "synthesized")

\* the four global options printCommandHelp appends when it has no parser record
HelpGlobals ==
    <<<<"-", "-", "h", "e", "l", "p">>,
      <<"-", "-", "v", "e", "r", "s", "i", "o", "n">>,
      <<"-", "-", "r", "o", "o", "t", "-", "d", "i", "r", " ", "<", "p", "a", "t", "h", ">">>,
      <<"-", "-", "d", "e", "b", "u", "g">>>>

\* the Options block of printCommandHelp, as the raw names it prints and where
\* the list comes from
OptionsOf(cmd, cacCmd) ==
    IF cacCmd # <<>>
    THEN Ev("options", cacCmd[1].options, "parser")
    ELSE Ev("options",
            [i \in 1..Len(ClassOptions(cmd.class)) |-> ClassOptions(cmd.class)[i].name]
                \o HelpGlobals,
            "metadata")

\* a help run that throws for an unknown query: nothing printed, no exit
HelpRunThrowsUnknown(m, commandParts) ==
    LET kind == HelpOutcome(loadedCommands, commandParts)
        query == Join(commandParts, <<SP>>)
        shown == Emit(m, Ev("help", commandParts, kind))
    IN CASE kind = "unknown" ->
              Emit(m, Ev("throw", commandParts, kind))
         [] kind = "global" ->
              Emit(shown, Ev("list", AllPaths(loadedCommands), kind))
         [] kind = "command" ->
              Emit(Emit(shown, UsageOf(FindCommand(loadedCommands, query)[1],
                                       CacCommand(grammar, query))),
                   OptionsOf(FindCommand(loadedCommands, query)[1],
                             CacCommand(grammar, query)))
         [] OTHER ->
              Emit(shown, Ev("list", NamespaceMatches(loadedCommands, query), kind))

\* HelpCommand.run({command: commandParts}), all of it synchronous; an unknown
\* query ends in BaseCommand.error, which prints and exits with status 1
HelpRun(m, commandParts) ==
    LET kind == HelpOutcome(loadedCommands, commandParts)
        query == Join(commandParts, <<SP>>)
        shown == Emit(m, Ev("help", commandParts, kind))
    IN CASE kind = "unknown" ->
              ProcessExit(Emit(m, Ev("unknownCommand", commandParts, kind)), 1)
         [] kind = "global" ->
              Emit(shown, Ev("list", AllPaths(loadedCommands), kind))
         [] kind = "command" ->
              Emit(Emit(shown, UsageOf(FindCommand(loadedCommands, query)[1],
                                       CacCommand(grammar, query))),
                   OptionsOf(FindCommand(loadedCommands, query)[1],
                             CacCommand(grammar, query)))
         [] OTHER ->
              Emit(shown, Ev("list", NamespaceMatches(loadedCommands, query), kind))

\* a runHelp that always takes the parser's built-in help
RunHelpNative(m, commandParts, then) ==
    PushJob(Emit(Emit(m, Ev("runHelp", commandParts, then)),
                 Ev("nativeHelp", commandParts, "native")),
            Job("cont", then))

\* CLI.runHelp up to its first await.  then names what its caller does once
\* the returned promise is fulfilled.
RunHelp(m, commandParts, then) ==
    LET called == Emit(m, Ev("runHelp", commandParts, then)) IN
    IF HelpCommandClass # NoClass
    THEN PushJob(HelpRun([called EXCEPT
                             !.nextObj = @ + 1,
                             !.helpers = Append(@, [obj |-> called.nextObj + 1,
                                                    class |-> HelpCommandClass,
                                                    command |-> commandParts])],
                         commandParts),
                 Job("helpDone", then))
    ELSE PushJob(Emit(called, Ev("nativeHelp", commandParts, "native")),
                 Job("cont", then))

(***************************************************************************)
(* CLI.runCommand and BaseCommand.init                                     *)
(***************************************************************************)
\* dispatching on the instance made during discovery
ReuseInstance(cmd, objects) == cmd.instance

\* new CommandClass(this, options): a new object
NewInstance(cmd, objects) == objects + 1

\* runCommand up to its first await: construct, then the synchronous start of
\* init().  quick is the outcome of an overriding init hook.
RunCommand(m, cmd, options, commandParts, quick) ==
    LET obj == NewInstance(cmd, m.nextObj)
        made == Emit([m EXCEPT !.nextObj = @ + 1,
                               !.run = <<[obj |-> obj, class |-> cmd.class,
                                          options |-> options,
                                          commandParts |-> commandParts,
                                          init |-> "pending", run |-> "none",
                                          ranWith |-> <<>>]>>],
                     Ev("construct", <<obj>>, cmd.class))
        started == Emit(made, Ev("init", <<obj>>, cmd.class))
    IN IF ~Alive(m) THEN m
       ELSE IF OverridesInit(cmd.class) THEN PushJob(started, Job("afterInit", quick))
       ELSE IF options.rootDir # <<>> THEN StartIo(started, "loadConfig")
       ELSE StartIo(started, "findProjectRoot")

\* a catch block that prints the stack whatever options.debug is
CatchBlockAlwaysStack(m, what) ==
    LET msg == Emit(m, Ev("error", <<>>, what))
        stk == Emit(msg, Ev("stack", <<>>, what))
    IN RunHelp(Emit(stk, Ev("blank", <<>>, "")), m.run[1].commandParts, "exit1")

\* the catch block of runCommand
CatchBlock(m, what) ==
    LET options == m.run[1].options
        msg == Emit(m, Ev("error", <<>>, what))
        stk == IF options.debug THEN Emit(msg, Ev("stack", <<>>, what)) ELSE msg
    IN RunHelp(Emit(stk, Ev("blank", <<>>, "")), m.run[1].commandParts, "exit1")

(***************************************************************************)
(* The dispatch closures                                                   *)
(***************************************************************************)
Undef == [present |-> FALSE, arr |-> FALSE, v |-> <<>>]
ScalarVal(tok) == [present |-> TRUE, arr |-> FALSE, v |-> <<tok>>]
ArrayVal(toks) == [present |-> TRUE, arr |-> TRUE, v |-> toks]

\* positionalArgs[index], zero-based index i - 1
ValueAt(positional, i) == IF i <= Len(positional) THEN positional[i] ELSE Undef

\* positionalArgs.slice(index) of an array of strings
SliceFrom(positional, i) ==
    ArrayVal([j \in 1..(Len(positional) - i + 1) |-> positional[j + i - 1].v[1]])

\* options[name] = value
SetArg(options, name, value) ==
    [options EXCEPT !.args = (name :> value) @@ @]

\* a child that stores the one value at the index for a variadic spec too
ChildValueScalar(arg, positional, i) == positional[i]

\* the value a namespace child stores for a present positional
ChildValue(arg, positional, i) ==
    IF IsVariadic(arg) THEN SliceFrom(positional, i) ELSE positional[i]

\* the message and an exit without help
MissingRequiredNoHelp(m, arg, commandParts) ==
    ProcessExit(Emit(m, Ev("error", <<CleanName(arg)>>, "missingArg")), 1)

\* a required argument without a value: the message, then
\* this.runHelp(...).then(() => process.exit(1))
MissingRequired(m, arg, commandParts) ==
    RunHelp(Emit(m, Ev("error", <<CleanName(arg)>>, "missingArg")), commandParts, "exit1")

\* the forEach over argsDef.args; the callback's return ends one iteration only.
\* Gives the machine and the options after the loop.
RECURSIVE MapArgs(_, _, _, _, _, _, _)
MapArgs(m, options, specs, i, positional, commandParts, isChild) ==
    IF i > Len(specs) THEN [m |-> m, options |-> options]
    ELSE LET arg == specs[i]
             val == ValueAt(positional, i)
         IN IF val.present
            THEN MapArgs(m,
                         SetArg(options, CleanName(arg),
                                IF isChild THEN ChildValue(arg, positional, i) ELSE val),
                         specs, i + 1, positional, commandParts, isChild)
            ELSE IF arg.required
            THEN MapArgs(MissingRequired(m, arg, commandParts),
                         options, specs, i + 1, positional, commandParts, isChild)
            ELSE MapArgs(m, options, specs, i + 1, positional, commandParts, isChild)

\* a leaf action without the options.help branch
LeafActionNoHelpBranch(m, cmd, positional, options, quick) ==
    LET mapped == MapArgs(m, options, ClassArgs(cmd.class), 1, positional,
                          <<cmd.command>>, FALSE)
    IN RunCommand(mapped.m, cmd, mapped.options, <<cmd.command>>, quick)

\* the action of a leaf command
LeafAction(m, cmd, positional, options, quick) ==
    IF options.help THEN RunHelp(m, <<cmd.command>>, "return")
    ELSE LET mapped == MapArgs(m, options, ClassArgs(cmd.class), 1, positional,
                               <<cmd.command>>, FALSE)
         IN RunCommand(mapped.m, cmd, mapped.options, <<cmd.command>>, quick)

\* a namespace action that looks the child up although options.help is set
NamespaceActionIgnoresHelp(m, root, cmds, subcommand, positional, options, quick) ==
    IF subcommand = <<>> \/ subcommand[1] = EmptyStr
    THEN RunHelp(m, <<root>>, "return")
    ELSE LET found == FindCommand(cmds, root \o <<SP>> \o subcommand[1]) IN
         IF found = <<>>
         THEN ProcessExit(Emit(m, Ev("error", <<subcommand[1], root>>, "unknownSubcommand")),
                          1)
         ELSE LET parts == <<root, subcommand[1]>>
                  mapped == MapArgs(m, options, ClassArgs(found[1].class), 1,
                                    positional, parts, TRUE)
              IN RunCommand(mapped.m, found[1], mapped.options, parts, quick)

\* a namespace action that renders the help of the root for an unknown subcommand
NamespaceActionHelpsUnknown(m, root, cmds, subcommand, positional, options, quick) ==
    IF subcommand = <<>> \/ subcommand[1] = EmptyStr \/ options.help
    THEN RunHelp(m, <<root>> \o SelectSeq(subcommand, LAMBDA t : t # EmptyStr), "return")
    ELSE LET found == FindCommand(cmds, root \o <<SP>> \o subcommand[1]) IN
         IF found = <<>>
         THEN RunHelp(Emit(m, Ev("error", <<subcommand[1], root>>, "unknownSubcommand")),
                      <<root>>, "exit1")
         ELSE LET parts == <<root, subcommand[1]>>
                  mapped == MapArgs(m, options, ClassArgs(found[1].class), 1,
                                    positional, parts, TRUE)
              IN RunCommand(mapped.m, found[1], mapped.options, parts, quick)

\* the action of a namespace command; subcommand is <<>> when absent
NamespaceAction(m, root, cmds, subcommand, positional, options, quick) ==
    IF subcommand = <<>> \/ subcommand[1] = EmptyStr \/ options.help
    THEN RunHelp(m, <<root>> \o SelectSeq(subcommand, LAMBDA t : t # EmptyStr), "return")
    ELSE LET found == FindCommand(cmds, root \o <<SP>> \o subcommand[1]) IN
         IF found = <<>>
         THEN ProcessExit(Emit(m, Ev("error", <<subcommand[1], root>>, "unknownSubcommand")),
                          1)
         ELSE LET parts == <<root, subcommand[1]>>
                  mapped == MapArgs(m, options, ClassArgs(found[1].class), 1,
                                    positional, parts, TRUE)
              IN RunCommand(mapped.m, found[1], mapped.options, parts, quick)

(***************************************************************************)
(* The parser, at its boundary: which grammar entry an argument list       *)
(* matches, when parse() throws, and what the matched action is handed     *)
(***************************************************************************)
T_a == <<"a">>
T_m == <<"m">>
O_help == <<"-", "-", "h", "e", "l", "p">>
O_h == <<"-", "h">>
O_debug == <<"-", "-", "d", "e", "b", "u", "g">>
O_rootDir == <<"-", "-", "r", "o", "o", "t", "-", "d", "i", "r">>
\* an option no leaf command declares; cac hands it to a namespace action
O_dryRun == <<"-", "-", "d", "r", "y", "-", "r", "u", "n">>

\* a => a.startsWith('-')
IsFlag(tok) == StartsWith(tok, <<"-">>)

\* --root-dir <path> takes the next argument as its value, and so does an
\* option the parser has no declaration of
TakesValue(tok) == tok \in {O_rootDir, O_dryRun}

HasValueAfter(args) == Len(args) > 1 /\ ~IsFlag(args[2])

\* the arguments left once the options and their values are taken out
RECURSIVE Positionals(_)
Positionals(args) ==
    IF Len(args) = 0 THEN <<>>
    ELSE IF ~IsFlag(args[1]) THEN <<args[1]>> \o Positionals(Tail(args))
    ELSE IF TakesValue(args[1]) /\ HasValueAfter(args)
    THEN Positionals(Tail(Tail(args)))
    ELSE Positionals(Tail(args))

\* the value given to --root-dir, <<>> if none
RECURSIVE RootDirOf(_)
RootDirOf(args) ==
    IF Len(args) = 0 THEN <<>>
    ELSE IF TakesValue(args[1]) /\ HasValueAfter(args)
    THEN IF args[1] = O_rootDir THEN <<args[2]>> ELSE RootDirOf(Tail(Tail(args)))
    ELSE RootDirOf(Tail(args))

\* --root-dir without a value: the parser rejects it for a matched command
RECURSIVE MissingOptionValue(_)
MissingOptionValue(args) ==
    IF Len(args) = 0 THEN FALSE
    ELSE IF TakesValue(args[1]) /\ HasValueAfter(args)
    THEN MissingOptionValue(Tail(Tail(args)))
    ELSE IF args[1] = O_rootDir THEN TRUE
    ELSE MissingOptionValue(Tail(args))

Includes(args, tok) == \E i \in 1..Len(args) : args[i] = tok

LowerChars == <<"a", "b", "c", "d", "e", "f", "g", "h", "i", "j", "k", "l", "m",
                "n", "o", "p", "q", "r", "s", "t", "u", "v", "w", "x", "y", "z">>
UpperChars == <<"A", "B", "C", "D", "E", "F", "G", "H", "I", "J", "K", "L", "M",
                "N", "O", "P", "Q", "R", "S", "T", "U", "V", "W", "X", "Y", "Z">>
IsLower(c) == \E i \in 1..Len(LowerChars) : LowerChars[i] = c
ToUpper(c) == UpperChars[CHOOSE i \in 1..Len(LowerChars) : LowerChars[i] = c]

\* the parser's key for an option name: a letter, '-', a letter becomes the
\* first letter and the second in upper case
RECURSIVE CamelCase(_)
CamelCase(s) ==
    IF Len(s) < 3 THEN s
    ELSE IF IsLower(s[1]) /\ s[2] = "-" /\ IsLower(s[3])
    THEN <<s[1], ToUpper(s[3])>> \o CamelCase(SubSeq(s, 4, Len(s)))
    ELSE <<s[1]>> \o CamelCase(Tail(s))

RECURSIVE StripDashes(_)
StripDashes(s) == IF Len(s) > 0 /\ s[1] = "-" THEN StripDashes(Tail(s)) ELSE s

\* the key under which the parser stores the option given as tok
OptionKey(tok) == CamelCase(StripDashes(tok))

\* the options given on the command line that are no global option: the value
\* is the next argument if it is no flag, else true
RECURSIVE GivenOptions(_)
GivenOptions(args) ==
    IF Len(args) = 0 THEN <<>>
    ELSE IF TakesValue(args[1]) /\ HasValueAfter(args)
    THEN (IF args[1] = O_dryRun THEN OptionKey(args[1]) :> args[2] ELSE <<>>)
            @@ GivenOptions(Tail(Tail(args)))
    ELSE (IF args[1] = O_dryRun THEN OptionKey(args[1]) :> ValTrue ELSE <<>>)
            @@ GivenOptions(Tail(args))

\* the options object the action receives
ParsedOptions(args) ==
    [help |-> Includes(args, O_help) \/ Includes(args, O_h),
     debug |-> Includes(args, O_debug),
     rootDir |-> RootDirOf(args),
     extra |-> GivenOptions(args),
     args |-> <<>>]

\* cacCommand.option(opt.name, opt.description, {default: opt.default}): the
\* parser fills the default of a declared option that is not given
RECURSIVE WithDefaults(_, _)
WithDefaults(options, specs) ==
    IF Len(specs) = 0 THEN options
    ELSE LET key == OptionKey(SubSeq(specs[1].name, 1,
                                     IF IndexOf(specs[1].name, SP, 1) = 0
                                     THEN Len(specs[1].name)
                                     ELSE IndexOf(specs[1].name, SP, 1) - 1))
         IN WithDefaults(IF key \in DOMAIN options.extra THEN options
                         ELSE [options EXCEPT !.extra = (key :> specs[1].default) @@ @],
                         Tail(specs))

\* the first registered entry whose name is the first positional
RECURSIVE MatchEntry(_, _)
MatchEntry(entries, pos) ==
    IF Len(entries) = 0 \/ Len(pos) = 0 THEN <<>>
    ELSE IF entries[1].root = pos[1] THEN <<entries[1]>>
    ELSE MatchEntry(Tail(entries), pos)

Matched == MatchEntry(grammar, Positionals(argv))

\* the slots of a grammar entry the parser takes for required: those written
\* in angle brackets
RequiredSlots(rawName) ==
    SelectSeq(Tail(Split(rawName, SP)), LAMBDA slot : StartsWith(slot, <<"<">>))

\* parse() throws for a matched command: an option value is missing, fewer
\* arguments are given than the entry has required slots, or the command does
\* not allow an option it has no declaration of
ParseRejects(entry, args) ==
    \/ MissingOptionValue(args)
    \/ Len(Tail(Positionals(args))) < Len(RequiredSlots(entry.rawName))
    \/ /\ Includes(args, O_dryRun)
       /\ ~entry.allowUnknownOptions
       /\ \A i \in 1..Len(ClassOptions(entry.cmds[1].class)) :
             ClassOptions(entry.cmds[1].class)[i].name # O_dryRun

\* the values a leaf action receives, one per declared slot: a variadic slot
\* gets the array of the remaining arguments, another slot its argument if any
LeafValues(specs, rest) ==
    [i \in 1..Len(specs) |->
        IF IsVariadic(specs[i])
        THEN ArrayVal(SubSeq(rest, i, Len(rest)))
        ELSE IF i <= Len(rest) THEN ScalarVal(rest[i]) ELSE Undef]

\* the [...args] array a namespace action receives
RestValues(rest) == [i \in 1..Len(rest) |-> ScalarVal(rest[i])]

(***************************************************************************)
(* CLI.start, third part: global help interception and parse               *)
(***************************************************************************)
\* --help or -h anywhere, whatever else is given
BareHelpAnyArgs(args) == Includes(args, O_help) \/ Includes(args, O_h)

\* process.argv holds --help or -h and no argument not starting with '-'
BareHelp(args) ==
    /\ Includes(args, O_help) \/ Includes(args, O_h)
    /\ SelectSeq(args, LAMBDA a : ~IsFlag(a)) = <<>>

StartVarsUnchanged ==
    UNCHANGED <<fs, useConfig, argv, commandsDirs, rootIdx, stack, importing,
                commands, importLog, loadErrors, loadedCommands,
                HelpCommandClass, grammar>>

\* await this.runHelp([]); process.exit(0)
InterceptGlobalHelp ==
    /\ Running
    /\ phase = "intercept"
    /\ BareHelp(argv)
    /\ Commit(RunHelp(Machine, <<>>, "exit0"))
    /\ phase' = "intercepted"
    /\ UNCHANGED call
    /\ StartVarsUnchanged

Parsing == Running /\ phase = "intercept" /\ ~BareHelp(argv)

\* this.cli.parse() matches no command: nothing is run
ParseNoMatch ==
    /\ Parsing
    /\ Matched = <<>>
    /\ Commit(Emit(Machine, Ev("parse", argv, "nomatch")))
    /\ phase' = "returned"
    /\ UNCHANGED call
    /\ StartVarsUnchanged

\* the catch block's helpArgs: args.find(a => !a.startsWith('-')) as a list of
\* at most one element
HelpArgsGlobal(args) == <<>>

PotentialCommand(args) ==
    LET nonFlags == SelectSeq(args, LAMBDA a : ~IsFlag(a))
    IN IF nonFlags = <<>> THEN <<>> ELSE <<nonFlags[1]>>

\* this.cli.parse() throws: the catch block of start up to its await
ParseThrows ==
    /\ Parsing
    /\ Matched # <<>>
    /\ ParseRejects(Matched[1], argv)
    /\ LET helpArgs == PotentialCommand(argv)
           thrown == Emit(Emit(Emit(Machine, Ev("parse", argv, "throw")),
                               Ev("error", <<>>, "parseError")),
                          Ev("blank", <<>>, ""))
       IN Commit(RunHelp(thrown, helpArgs, "exit1"))
    /\ phase' = "caught"
    /\ UNCHANGED call
    /\ StartVarsUnchanged

\* this.cli.parse() runs the action of a leaf command
ParseRunsLeaf ==
    /\ Parsing
    /\ Matched # <<>>
    /\ ~ParseRejects(Matched[1], argv)
    /\ Matched[1].kind = "leaf"
    /\ \E quick \in {"ok", "throw"} :
          LET cmd == Matched[1].cmds[1]
              values == LeafValues(ClassArgs(cmd.class), Tail(Positionals(argv)))
              options == WithDefaults(ParsedOptions(argv), ClassOptions(cmd.class))
          IN /\ call' = <<[kind |-> "leaf", root |-> Matched[1].root,
                           subcommand |-> <<>>, positional |-> values,
                           options |-> options]>>
             /\ Commit(LeafAction(Emit(Machine, Ev("parse", argv, "leaf")),
                                  cmd, values, options, quick))
    /\ phase' = "returned"
    /\ StartVarsUnchanged

\* this.cli.parse() runs the action of a namespace command
ParseRunsNamespace ==
    /\ Parsing
    /\ Matched # <<>>
    /\ ~ParseRejects(Matched[1], argv)
    /\ Matched[1].kind = "namespace"
    /\ \E quick \in {"ok", "throw"} :
          LET rest == Tail(Positionals(argv))
              subcommand == IF rest = <<>> THEN <<>> ELSE <<rest[1]>>
              values == IF rest = <<>> THEN <<>> ELSE RestValues(Tail(rest))
              options == ParsedOptions(argv)
          IN /\ call' = <<[kind |-> "namespace", root |-> Matched[1].root,
                           subcommand |-> subcommand, positional |-> values,
                           options |-> options]>>
             /\ Commit(NamespaceAction(Emit(Machine, Ev("parse", argv, "namespace")),
                                       Matched[1].root, Matched[1].cmds,
                                       subcommand, values, options, quick))
    /\ phase' = "returned"
    /\ StartVarsUnchanged

(***************************************************************************)
(* Jobs and I/O completions                                                *)
(***************************************************************************)
Popped == [Machine EXCEPT !.jobs = Tail(@)]

JobVarsUnchanged ==
    /\ UNCHANGED <<phase, call>>
    /\ StartVarsUnchanged

HeadIs(k) == Running /\ jobs # <<>> /\ jobs[1].k = k

\* runHelp resumes after await helpInstance.run(...) and returns: the promise
\* it gave its caller is fulfilled
JobHelpDone ==
    /\ HeadIs("helpDone")
    /\ Commit(PushJob(Popped, Job("cont", jobs[1].x)))
    /\ JobVarsUnchanged

\* the caller of runHelp goes on: process.exit, or the action returns
JobAfterHelp ==
    /\ HeadIs("cont")
    /\ Commit(CASE jobs[1].x = "exit0" -> ProcessExit(Popped, 0)
                [] jobs[1].x = "exit1" -> ProcessExit(Popped, 1)
                [] OTHER -> Popped)
    /\ JobVarsUnchanged

SetInit(m, v) == [m EXCEPT !.run[1].init = v]
SetRun(m, v) == [m EXCEPT !.run[1].run = v]

\* instance.run(options) up to its first await.  behaviour is what the
\* command's run does: "ok" or "throw" without I/O, or "io".  HelpCommand's
\* run is the help resolution for options.command.
CallRun(m, behaviour) ==
    LET started == Emit([SetRun(m, "started") EXCEPT
                               !.run[1].ranWith = <<m.run[1].options>>],
                        Ev("run", <<m.run[1].obj>>, m.run[1].class))
        command == IF CommandKey \in DOMAIN m.run[1].options.args
                   THEN m.run[1].options.args[CommandKey].v ELSE <<>>
    IN IF m.run[1].class = "Help"
       THEN PushJob(HelpRun(started, command), Job("afterRun", "ok"))
       ELSE IF behaviour = "io" THEN StartIo(started, "run")
       ELSE PushJob(started, Job("afterRun", behaviour))

\* runCommand resumes after await instance.init()
JobAfterInit ==
    /\ HeadIs("afterInit")
    /\ \E behaviour \in {"ok", "throw", "io"} :
          Commit(IF jobs[1].x = "ok"
                 THEN CallRun(SetInit(Popped, "done"), behaviour)
                 ELSE CatchBlock(SetInit(Popped, "threw"), "initError"))
    /\ JobVarsUnchanged

\* runCommand resumes after await instance.run(options)
JobAfterRun ==
    /\ HeadIs("afterRun")
    /\ Commit(IF jobs[1].x = "ok"
              THEN SetRun(Popped, "done")
              ELSE CatchBlock(SetRun(Popped, "threw"), "runError"))
    /\ JobVarsUnchanged

IoReady(what) == Running /\ jobs = <<>> /\ what \in io

IoDone(what) == [Machine EXCEPT !.io = @ \ {what}]

\* BaseCommand.error(msg, 1); detail is what the message names
CommandError(m, detail, what) == ProcessExit(Emit(m, Ev("commandError", detail, what)), 1)

\* the file the message of init names
ProjectFile == <<"a", "p", "p", ".", "y", "m", "l">>

\* BaseCommand.init resumes after await findProjectRoot(...)
IoFindProjectRoot ==
    /\ IoReady("findProjectRoot")
    /\ \E result \in {"found", "absent", "throw"} :
          LET back == Emit(IoDone("findProjectRoot"), Ev("findProjectRoot", <<>>, result))
          IN
          Commit(CASE result = "found" -> StartIo(back, "loadConfig")
                   [] result = "throw" -> PushJob(back, Job("afterInit", "throw"))
                   [] OTHER ->
                        IF RequiresProject(run[1].class)
                        THEN CommandError(back, <<ProjectFile>>, "projectRequired")
                        ELSE PushJob(back, Job("afterInit", "ok")))
    /\ JobVarsUnchanged

\* BaseCommand.init resumes after await loadConfig(...) and returns
IoLoadConfig ==
    /\ IoReady("loadConfig")
    /\ \E result \in {"ok", "throw"} :
          Commit(PushJob(IoDone("loadConfig"), Job("afterInit", result)))
    /\ JobVarsUnchanged

\* the I/O a command's run waits for completes
IoRun ==
    /\ IoReady("run")
    /\ \E result \in {"ok", "throw"} :
          Commit(PushJob(IoDone("run"), Job("afterRun", result)))
    /\ JobVarsUnchanged

\* start() has returned and nothing is pending: the process ends with status 0
ProcessEnd ==
    /\ Running
    /\ phase = "returned"
    /\ jobs = <<>>
    /\ io = {}
    /\ Commit(ProcessExit(Machine, 0))
    /\ JobVarsUnchanged

(***************************************************************************)
(* The whole of start(), over a catalogue of command trees                 *)
(***************************************************************************)
\* help, a leaf with two required arguments, a namespace with an index
TreeFull ==
    <<Root(R1, TRUE,
        <<FileEntry(F_help_ts, "Help"),
          FileEntry(F_a_ts, "Copy"),
          DirEntry(D_m, <<FileEntry(F_a_ts, "Quick"), FileEntry(F_index_ts, "Plain")>>)>>)>>

\* a missing root; no help command; a namespace of one child that requires a
\* project
TreeNoHelp ==
    <<Root(R2, FALSE, <<>>),
      Root(R1, TRUE,
        <<FileEntry(F_a_ts, "Greet"),
          DirEntry(D_m, <<FileEntry(F_a_ts, "Proj"), FileEntry(F_b_js, "throw")>>)>>)>>

\* two roots that both define "a" and "m a"
TreeTwoRoots ==
    <<Root(R1, TRUE, <<FileEntry(F_help_ts, "Help"), FileEntry(F_a_ts, "Cat"),
                       DirEntry(D_m, <<FileEntry(F_a_ts, "Proj")>>)>>),
      Root(R2, TRUE, <<FileEntry(F_a_ts, "Plain"), FileEntry(F_index_ts, "Plain"),
                       DirEntry(D_m, <<FileEntry(F_a_ts, "Plain")>>)>>)>>

\* a leaf and a namespace child with a required variadic argument; in the second root a command
\* whose name is a property every object inherits
TreeInherited ==
    <<Root(R1, TRUE, <<FileEntry(F_a_ts, "Cat"),
                       DirEntry(D_m, <<FileEntry(F_a_ts, "Cat")>>)>>),
      Root(R2, TRUE, <<FileEntry(F_constructor_ts, "Plain")>>)>>

CatalogueFileSystems == {TreeFull, TreeNoHelp, TreeTwoRoots, TreeInherited}

ArgTokens == {T_a, T_m, HelpName, O_help, O_h, O_debug, O_rootDir, O_dryRun}

\* argument lists that give a namespace child two values
LongArgLists == {<<T_m, T_a, T_a, T_m>>, <<T_m, T_a, T_m, T_a>>}

ArgLists == UNION {[1..n -> ArgTokens] : n \in 0..MaxArgv} \cup LongArgLists

Init ==
    /\ fs \in CatalogueFileSystems
    /\ useConfig \in BOOLEAN
    /\ argv \in ArgLists
    /\ InitCommon

Next ==
    \/ StartChooseDirs
    \/ LoadMissingRoot
    \/ LoadRoot
    \/ ScanDirectory
    \/ ScanSkipFile
    \/ ImportStart
    \/ ImportSettle
    \/ ScanReturn
    \/ LoadDone
    \/ GroupCommands
    \/ RegisterGroup
    \/ RegisterGlobals
    \/ InterceptGlobalHelp
    \/ ParseNoMatch
    \/ ParseThrows
    \/ ParseRunsLeaf
    \/ ParseRunsNamespace
    \/ JobHelpDone
    \/ JobAfterHelp
    \/ JobAfterInit
    \/ JobAfterRun
    \/ IoFindProjectRoot
    \/ IoLoadConfig
    \/ IoRun
    \/ ProcessEnd

Spec == Init /\ [][Next]_vars

(***************************************************************************)
(* HelpCommand.run alone, over every bounded registry and query            *)
(***************************************************************************)
P_ma == <<"m", "a">>
HelpPaths == {T_a, T_m, P_ma, Join(<<T_m, T_a>>, <<SP>>), Join(<<T_m, T_m>>, <<SP>>)}
HelpClasses == {"Help", "Plain", "Greet", "Cat", "Quick"}

\* the registries of at most MaxRegistry entries
BoundedRegistries ==
    UNION {{[i \in 1..n |-> [command |-> pc[i][1], path |-> R1, instance |-> i,
                             class |-> pc[i][2]]] :
               pc \in [1..n -> HelpPaths \X HelpClasses]} : n \in 0..MaxRegistry}

\* the queries of at most MaxDepth tokens
BoundedQueries == UNION {[1..n -> {T_a, T_m}] : n \in 0..MaxDepth}

\* the grammar start() registers for a registry
GrammarOf(cmds) ==
    LET roots == GroupRoots(cmds, {})
    IN [i \in 1..Len(roots) |-> GrammarEntry(GroupOf(cmds, roots[i]), roots[i])]

InitHelp ==
    /\ fs = <<>>
    /\ useConfig = FALSE
    /\ argv \in BoundedQueries
    /\ phase = "help"
    /\ commandsDirs = <<>>
    /\ rootIdx = 1
    /\ stack = <<>>
    /\ importing = NoImport
    /\ loadedCommands \in BoundedRegistries
    /\ commands = loadedCommands
    /\ importLog = <<>>
    /\ loadErrors = <<>>
    /\ nextObj = Len(loadedCommands)
    /\ HelpCommandClass = "Help"
    /\ grammar = GrammarOf(loadedCommands)
    /\ jobs = <<>>
    /\ io = {}
    /\ call = NoCall
    /\ run = NoRun
    /\ out = <<>>
    /\ helpers = <<>>
    /\ exitCode = NoExit

\* new HelpCommand(cli).run({command: argv})
HelpResolve ==
    /\ Running
    /\ phase = "help"
    /\ Commit(HelpRun([Machine EXCEPT !.nextObj = @ + 1], argv))
    /\ phase' = "helped"
    /\ UNCHANGED call
    /\ StartVarsUnchanged

NextHelp == HelpResolve

SpecHelp == InitHelp /\ [][NextHelp]_vars

(***************************************************************************)
(* Discovery: what the claims speak of, stated over the directory tree     *)
(***************************************************************************)
\* the files below a listing, depth first in listing order, each with the
\* directory names leading to it
RECURSIVE FilesBelow(_, _, _)
FilesBelow(listing, dir, segments) ==
    IF Len(listing) = 0 THEN <<>>
    ELSE LET e == listing[1]
             here == IF e.isDir
                     THEN FilesBelow(e.children, dir \o <<"/">> \o e.name,
                                     segments \o <<e.name>>)
                     ELSE << [path |-> dir \o <<"/">> \o e.name, segments |-> segments,
                              name |-> e.name, module |-> e.module] >>
         IN here \o FilesBelow(Tail(listing), dir, segments)

RECURSIVE FilesOfRoots(_, _)
FilesOfRoots(roots, k) ==
    IF k > Len(commandsDirs) THEN <<>>
    ELSE (IF roots[commandsDirs[k]].exists
          THEN FilesBelow(roots[commandsDirs[k]].listing, roots[commandsDirs[k]].dir, <<>>)
          ELSE <<>>) \o FilesOfRoots(roots, k + 1)

\* every file under the search roots start() loads
SearchedFiles == FilesOfRoots(fs, 1)

SeqRange(q) == {q[i] : i \in 1..Len(q)}

RECURSIVE SelectSeqBy(_, _)
SelectSeqBy(q, keep) ==
    IF Len(q) = 0 THEN <<>>
    ELSE (IF q[1] \in keep THEN <<q[1]>> ELSE <<>>) \o SelectSeqBy(Tail(q), keep)

Recognized(name) ==
    /\ Len(name) > 3
    /\ SubSeq(name, Len(name) - 2, Len(name)) \in {DotTs, DotJs}
    /\ ~(Len(name) >= 5 /\ SubSeq(name, Len(name) - 4, Len(name)) = DotDTs)

\* a recognized file name without its three-character extension
Stem(name) == SubSeq(name, 1, Len(name) - 3)

EntriesAt(path) == {i \in 1..Len(commands) : commands[i].path = path}

DiscoveryDone == phase = "group"

\* C1 as stated: every recognized non-index file whose module has a truthy
\* default export has exactly one registry entry, whose command path is its
\* directory segments and base name joined by single spaces
C1_TruthyExportRegistered ==
    DiscoveryDone =>
        \A f \in SeqRange(SearchedFiles) :
            (Recognized(f.name) /\ Stem(f.name) # IndexName
                /\ f.module \in ClassIds \cup {"notctor"}) =>
                /\ Cardinality(EntriesAt(f.path)) = 1
                /\ \A i \in EntriesAt(f.path) :
                      Split(commands[i].command, SP) = f.segments \o <<Stem(f.name)>>

\* C1, amended: every recognized non-index file whose default export is a class
\* that scan can construct has exactly one registry entry, with the file as its
\* source path and its directory segments and base name, joined by single
\* spaces, as its command path
C1_UsableExportRegistered ==
    DiscoveryDone =>
        \A f \in SeqRange(SearchedFiles) :
            (Recognized(f.name) /\ Stem(f.name) # IndexName /\ f.module \in ClassIds) =>
                /\ Cardinality(EntriesAt(f.path)) = 1
                /\ \A i \in EntriesAt(f.path) :
                      Split(commands[i].command, SP) = f.segments \o <<Stem(f.name)>>

C1_Witness ==
    /\ DiscoveryDone
    /\ \E i \in 1..Len(commands) :
          /\ commands[i].command = <<"m", " ", "m", " ", "a">>
          /\ commands[i].path = <<"/", "r", "/", "m", "/", "m", "/", "a", ".", "t", "s">>

\* C2: an index file below a directory is registered under the directory chain
\* joined by spaces (when its module is a usable class); an index file directly
\* under a search root is never imported and never registered
C2_IndexFiles ==
    DiscoveryDone =>
        \A f \in SeqRange(SearchedFiles) :
            (Recognized(f.name) /\ Stem(f.name) = IndexName) =>
                IF Len(f.segments) >= 1
                THEN f.module \in ClassIds =>
                        /\ Cardinality(EntriesAt(f.path)) = 1
                        /\ \A i \in EntriesAt(f.path) :
                              Split(commands[i].command, SP) = f.segments
                ELSE /\ EntriesAt(f.path) = {}
                     /\ f.path \notin SeqRange(importLog)

C2_Witness ==
    /\ DiscoveryDone
    /\ \E f \in SeqRange(SearchedFiles) :
          f.name = F_index_js /\ f.segments = <<>> /\ f.module = "Plain"
    /\ \E i \in 1..Len(commands) :
          /\ commands[i].command = <<"m">>
          /\ commands[i].path = <<"/", "r", "/", "m", "/">> \o F_index_js

\* the searched tree with every file whose import rejects or has a falsy
\* default export taken out
IsBadFile(f) == f.module \in {"throw", "falsy"}

RECURSIVE DropBad(_)
DropBad(files) ==
    IF Len(files) = 0 THEN <<>>
    ELSE (IF IsBadFile(files[1]) THEN <<>> ELSE <<files[1]>>) \o DropBad(Tail(files))

\* the registry a run over the given files gives when none of them is bad
RECURSIVE RegistryOf(_)
RegistryOf(files) ==
    IF Len(files) = 0 THEN <<>>
    ELSE LET f == files[1]
             counts == /\ Recognized(f.name)
                       /\ ~(Stem(f.name) = IndexName /\ f.segments = <<>>)
                       /\ f.module \in ClassIds
             tokens == IF Stem(f.name) = IndexName THEN f.segments
                       ELSE f.segments \o <<Stem(f.name)>>
         IN (IF counts THEN << [tokens |-> tokens, path |-> f.path, class |-> f.module] >>
             ELSE <<>>) \o RegistryOf(Tail(files))

RegistryView ==
    [i \in 1..Len(commands) |->
        [tokens |-> Split(commands[i].command, SP), path |-> commands[i].path,
         class |-> commands[i].class]]

RECURSIVE ImportablePaths(_)
ImportablePaths(files) ==
    IF Len(files) = 0 THEN <<>>
    ELSE (IF Recognized(files[1].name)
             /\ ~(Stem(files[1].name) = IndexName /\ files[1].segments = <<>>)
          THEN <<files[1].path>> ELSE <<>>) \o ImportablePaths(Tail(files))

\* C3: a file whose import throws or whose default export is falsy adds no
\* entry, and the registry is the one discovery builds without those files;
\* every later command file is still imported
C3_BadFilesIsolated ==
    DiscoveryDone =>
        /\ \A f \in SeqRange(SearchedFiles) : IsBadFile(f) => EntriesAt(f.path) = {}
        /\ RegistryView = RegistryOf(DropBad(SearchedFiles))
        /\ importLog = ImportablePaths(SearchedFiles)

C3_Witness ==
    /\ DiscoveryDone
    /\ Len(SearchedFiles) = 2
    /\ SearchedFiles[1].module \in {"throw", "falsy"}
    /\ SearchedFiles[1].path \in SeqRange(importLog)
    /\ SearchedFiles[2].module = "Plain"
    /\ Len(commands) = 1
    /\ commands[1].path = SearchedFiles[2].path

(***************************************************************************)
(* Dispatch: what the output shows                                         *)
(***************************************************************************)
OutIdx == 1..Len(out)

\* runHelp(parts) is called at position i and what it renders follows at once
HelpRenderedAt(i, parts) ==
    /\ i \in OutIdx /\ i + 1 \in OutIdx
    /\ out[i].t = "runHelp" /\ out[i].a = parts
    /\ out[i + 1].t \in {"help", "nativeHelp"} /\ out[i + 1].a = parts

\* the process has not exited before position i of the output
ExitAfter(i) == \A j \in OutIdx : out[j].t = "exit" => j > i

Count(t) == Cardinality({i \in OutIdx : out[i].t = t})

LeafCall == call # NoCall /\ call[1].kind = "leaf"
NamespaceCall == call # NoCall /\ call[1].kind = "namespace"

\* the command a leaf dispatch is for
LeafCommand == Matched[1].cmds[1]

\* the indexes of the required ArgumentSpecs without a positional value
MissingIn(specs, positional) ==
    {i \in 1..Len(specs) : specs[i].required /\ ~ValueAt(positional, i).present}

\* C4: in a leaf dispatch without --help, every required ArgumentSpec without
\* a positional value has its "Missing required argument" message printed,
\* followed by the help of the command's path before any exit; the process
\* cannot end but with status 1.
C4_LeafMissingRequired ==
    (LeafCall /\ ~call[1].options.help) =>
        LET specs == ClassArgs(LeafCommand.class)
            missing == MissingIn(specs, call[1].positional)
        IN /\ \A i \in missing :
                 \E j \in OutIdx :
                    /\ out[j] = Ev("error", <<CleanName(specs[i])>>, "missingArg")
                    /\ HelpRenderedAt(j + 1, <<call[1].root>>)
                    /\ ExitAfter(j + 2)
           /\ missing # {} =>
                 /\ exitCode \in {NoExit, <<1>>}
                 /\ jobs = <<>> => exitCode = <<1>>

C4_Witness ==
    /\ LeafCall /\ ~call[1].options.help
    /\ MissingIn(ClassArgs(LeafCommand.class), call[1].positional) # {}
    /\ \E j \in OutIdx : out[j].k = "missingArg"
    /\ exitCode = <<1>>

\* C5: in a namespace dispatch without --help whose subcommand names no
\* command of the group, "Unknown subcommand '<sub>' for '<root>'" is printed,
\* the process exits with status 1, and no command is constructed or run.
C5_UnknownSubcommand ==
    (/\ NamespaceCall /\ ~call[1].options.help
     /\ call[1].subcommand # <<>>
     /\ \A c \in SeqRange(loadedCommands) :
           Split(c.command, SP) # <<call[1].root, call[1].subcommand[1]>>)
    => /\ \E j \in OutIdx :
             /\ out[j] = Ev("error", <<call[1].subcommand[1], call[1].root>>,
                            "unknownSubcommand")
             /\ j + 1 \in OutIdx /\ out[j + 1] = Ev("exit", <<1>>, "exit")
       /\ exitCode = <<1>>
       /\ run = NoRun
       /\ Count("construct") = 0 /\ Count("init") = 0 /\ Count("run") = 0

C5_Witness ==
    /\ NamespaceCall
    /\ \E j \in OutIdx : out[j].k = "unknownSubcommand"
    /\ exitCode = <<1>>
    /\ run = NoRun

HasHelpFlag == \E i \in 1..Len(argv) : argv[i] \in {O_help, O_h}
HasNonFlag == \E i \in 1..Len(argv) : argv[i][1] # "-"

\* C6: with --help or -h and no non-flag token, global help is rendered and the
\* process exits with status 0 without the parser being invoked; with a
\* non-flag token there is no global help at that point and the parser is
\* invoked.
C6_GlobalHelpInterception ==
    /\ (HasHelpFlag /\ ~HasNonFlag) =>
          /\ phase \notin {"returned", "caught"}
          /\ Count("parse") = 0
          /\ phase = "intercepted" =>
                /\ HelpRenderedAt(1, <<>>)
                /\ out[1].k = "exit0"
                /\ ExitAfter(2)
                /\ exitCode \in {NoExit, <<0>>}
                /\ jobs = <<>> => exitCode = <<0>>
    /\ HasNonFlag =>
          /\ phase # "intercepted"
          /\ \A j \in OutIdx : out[j].t = "runHelp" => out[j].k # "exit0"
          /\ phase \in {"returned", "caught"} => out[1].t = "parse"

C6_Witness ==
    /\ HasHelpFlag /\ ~HasNonFlag
    /\ phase = "intercepted"
    /\ HelpRenderedAt(1, <<>>)
    /\ exitCode = <<0>>

\* the first raw argument not starting with '-', as a list of at most one
FirstNonFlag ==
    LET idx == {i \in 1..Len(argv) : argv[i][1] # "-"}
    IN IF idx = {} THEN <<>>
       ELSE <<argv[CHOOSE i \in idx : \A j \in idx : i <= j]>>

DiscoveryInstances == {loadedCommands[i].instance : i \in 1..Len(loadedCommands)}

\* C8: the dispatched command is a new instance, not one made during
\* discovery; its run starts only after its init has completed, with the
\* mapped options, and never if init throws.
C8_FreshInstanceInitThenRun ==
    /\ Count("construct") <= 1
    /\ run # NoRun =>
          LET r == run[1]
              specs == ClassArgs(r.class)
          IN /\ r.obj \notin DiscoveryInstances
             /\ r.run # "none" => r.init = "done"
             /\ r.init = "threw" => Count("run") = 0
             /\ \A j \in OutIdx :
                   out[j].t = "run" =>
                      /\ out[j].a = <<r.obj>>
                      /\ \E c, i \in OutIdx :
                            /\ c < i /\ i < j
                            /\ out[c] = Ev("construct", <<r.obj>>, r.class)
                            /\ out[i] = Ev("init", <<r.obj>>, r.class)
             /\ r.ranWith # <<>> =>
                   /\ r.run # "none"
                   /\ r.ranWith[1].help = call[1].options.help
                   /\ r.ranWith[1].debug = call[1].options.debug
                   /\ r.ranWith[1].rootDir = call[1].options.rootDir
                   /\ \A i \in 1..Len(specs) :
                         ValueAt(call[1].positional, i).present
                            <=> CleanName(specs[i]) \in DOMAIN r.ranWith[1].args

C8_Witness ==
    /\ run # NoRun
    /\ run[1].init = "done" /\ run[1].run = "done"
    /\ DOMAIN run[1].ranWith[1].args # {}
    /\ exitCode = <<0>>

\* the path runCommand is given by the dispatch
DispatchedPath ==
    IF call[1].kind = "leaf" THEN <<call[1].root>>
    ELSE <<call[1].root, call[1].subcommand[1]>>

\* C9: when init or run throws, the error message is printed, then the stack
\* if and only if options.debug is set, then the help of the dispatched path is
\* rendered, and only then the process exits, with status 1.
C9_RunCommandCatch ==
    /\ run # NoRun =>
          ((run[1].init = "threw" \/ run[1].run = "threw")
             <=> \E j \in OutIdx : out[j].t = "error" /\ out[j].k \in {"initError", "runError"})
    /\ \A j \in OutIdx :
          (out[j].t = "error" /\ out[j].k \in {"initError", "runError"}) =>
             LET h == IF call[1].options.debug THEN j + 3 ELSE j + 2 IN
             /\ call[1].options.debug <=> (j + 1 \in OutIdx /\ out[j + 1].t = "stack")
             /\ HelpRenderedAt(h, DispatchedPath)
             /\ out[h - 1].t = "blank"
             /\ out[h].k = "exit1"
             /\ ExitAfter(h + 1)
             /\ exitCode \in {NoExit, <<1>>}
             /\ jobs = <<>> => exitCode = <<1>>

C9_Witness ==
    /\ NamespaceCall
    /\ run # NoRun /\ run[1].run = "threw"
    /\ call[1].options.debug
    /\ \E j \in OutIdx : out[j].t = "stack"
    /\ exitCode = <<1>>

\* C10: a leaf dispatch with options.help renders the help of the command's
\* path and returns: no argument is validated, no command is constructed or
\* run, and the process does not exit with an error.
C10_LeafHelp ==
    (LeafCall /\ call[1].options.help) =>
        /\ HelpRenderedAt(2, <<call[1].root>>)
        /\ out[2].k = "return"
        /\ Count("runHelp") = 1
        /\ Count("error") = 0
        /\ run = NoRun
        /\ Count("construct") = 0 /\ Count("init") = 0 /\ Count("run") = 0
        /\ exitCode \in {NoExit, <<0>>}

C10_Witness ==
    /\ LeafCall /\ call[1].options.help
    /\ MissingIn(ClassArgs(LeafCommand.class), call[1].positional) # {}
    /\ HelpRenderedAt(2, <<call[1].root>>)
    /\ exitCode = <<0>>

HelpCalls == SelectSeq([i \in OutIdx |-> i], LAMBDA i : out[i].t = "runHelp")

\* the registry entries whose path is exactly "help"
HelpEntries == SelectSeq(loadedCommands, LAMBDA c : c.command = HelpName)

Registered == phase \notin {"start", "load", "group"}

\* C12: with a command of path "help" in the registry, every runHelp call, on
\* whichever path, makes a new instance of the first such command's class and
\* runs it with the call's tokens as command; without one, every runHelp call
\* has the parser print its built-in help.
C12_HelpRenderer ==
    Registered =>
        IF HelpEntries # <<>>
        THEN /\ HelpCommandClass = HelpEntries[1].class
             /\ Len(helpers) = Len(HelpCalls)
             /\ Count("nativeHelp") = 0
             /\ \A n \in 1..Len(helpers) :
                   /\ helpers[n].class = HelpEntries[1].class
                   /\ helpers[n].command = out[HelpCalls[n]].a
                   /\ helpers[n].obj \notin DiscoveryInstances
                   /\ run # NoRun => helpers[n].obj # run[1].obj
                   /\ \A k \in 1..Len(helpers) : k # n => helpers[k].obj # helpers[n].obj
                   /\ out[HelpCalls[n] + 1].t \in {"help", "unknownCommand"}
                   /\ out[HelpCalls[n] + 1].a = helpers[n].command
        ELSE /\ HelpCommandClass = NoClass
             /\ helpers = <<>>
             /\ Count("help") = 0
             /\ \A n \in 1..Len(HelpCalls) :
                   out[HelpCalls[n] + 1] = Ev("nativeHelp", out[HelpCalls[n]].a, "native")

C12_Witness ==
    /\ HelpEntries # <<>>
    /\ Len(helpers) = 2
    /\ run # NoRun
    /\ exitCode = <<1>>

(***************************************************************************)
(* Help resolution                                                         *)
(***************************************************************************)
Query == Join(argv, <<SP>>)

\* the registry positions whose path is the query
ExactAt == {i \in 1..Len(loadedCommands) : loadedCommands[i].command = Query}

\* the registry positions whose path is the query, a space, and more
UnderAt ==
    {i \in 1..Len(loadedCommands) :
        LET c == loadedCommands[i].command IN
        /\ Len(c) > Len(Query)
        /\ SubSeq(c, 1, Len(Query)) = Query
        /\ c[Len(Query) + 1] = SP}

Least(S) == CHOOSE i \in S : \A j \in S : i <= j

\* the paths at the positions S, in registry order
PathsAt(S) ==
    LET pick == SelectSeq([i \in 1..Len(loadedCommands) |-> i], LAMBDA i : i \in S)
    IN [n \in 1..Len(pick) |-> loadedCommands[pick[n]].command]

\* C13: help resolution has exactly one outcome: global help for the empty
\* query; else the help of the first entry whose path is the joined query; else
\* the namespace listing of exactly the entries under the query, in registry
\* order; else the unknown-command error.  An exact match wins over a namespace
\* match.
C13_HelpResolution ==
    phase = "helped" =>
        CASE argv = <<>> ->
               /\ out = <<Ev("help", <<>>, "global"),
                          Ev("list", PathsAt(1..Len(loadedCommands)), "global")>>
               /\ exitCode = NoExit
          [] argv # <<>> /\ ExactAt # {} ->
               /\ Len(out) = 3
               /\ out[1] = Ev("help", argv, "command")
               /\ out[2] = UsageOf(loadedCommands[Least(ExactAt)], CacCommand(grammar, Query))
               /\ out[3].t = "options"
               /\ exitCode = NoExit
          [] argv # <<>> /\ ExactAt = {} /\ UnderAt # {} ->
               /\ out = <<Ev("help", argv, "namespace"),
                          Ev("list", PathsAt(UnderAt), "namespace")>>
               /\ exitCode = NoExit
          [] OTHER ->
               /\ out = <<Ev("unknownCommand", argv, "unknown"), Ev("exit", <<1>>, "exit")>>
               /\ exitCode = <<1>>

C13_Witness ==
    /\ phase = "helped"
    /\ ExactAt # {} /\ UnderAt # {}
    /\ \E i \in UnderAt : i < Least(ExactAt)
    /\ out[1] = Ev("help", argv, "command")

\* the usage token the claim gives for one ArgumentSpec
UsageTokenOf(arg) ==
    LET variadic == Len(arg.name) >= 3
                    /\ SubSeq(arg.name, Len(arg.name) - 2, Len(arg.name)) = <<".", ".", ".">>
        name == IF variadic THEN SubSeq(arg.name, 1, Len(arg.name) - 3) ELSE arg.name
        dots == IF variadic THEN <<".", ".", ".">> ELSE <<>>
    IN IF arg.required THEN <<"<">> \o dots \o name \o <<">">>
       ELSE <<"[">> \o dots \o name \o <<"]">>

\* C18: for a command without a static usage and without a parser record, the
\* usage is the command path followed by one token per ArgumentSpec in
\* declaration order: <name>, <...name>, [name] or [...name].
C18_SynthesizedUsage ==
    (/\ phase = "helped" /\ argv # <<>> /\ ExactAt # {}
     /\ ClassUsage(loadedCommands[Least(ExactAt)].class) = EmptyStr
     /\ \A i \in 1..Len(grammar) : grammar[i].root # Query)
    => LET cmd == loadedCommands[Least(ExactAt)]
           specs == ClassArgs(cmd.class)
       IN out[2] = Ev("usage",
                      <<Join(<<cmd.command>> \o [i \in 1..Len(specs) |-> UsageTokenOf(specs[i])],
                             <<SP>>)>>,
                      "synthesized")

C18_Witness ==
    /\ phase = "helped" /\ ExactAt # {}
    /\ loadedCommands[Least(ExactAt)].class = "Cat"
    /\ out[2] = Ev("usage", <<<<"m", " ", "a", " ", "<", ".", ".", ".", "f", ">">>>>, "synthesized")

\* the runtime key of an OptionSpec name: the value placeholder and the
\* leading dashes stripped, kebab-case turned into camelCase
RuntimeKey(name) ==
    LET sp == IndexOf(name, SP, 1)
        flag == IF sp = 0 THEN name ELSE SubSeq(name, 1, sp - 1)
    IN CamelCase(StripDashes(flag))

\* C14: in a namespace dispatch the options of the target hold every
\* OptionSpec of the matched child: the parsed value if its runtime key was
\* parsed, else the spec's default.
C14_NamespaceOptionDefaults ==
    (NamespaceCall /\ run # NoRun) =>
        LET specs == ClassOptions(run[1].class) IN
        \A i \in 1..Len(specs) :
            LET key == RuntimeKey(specs[i].name) IN
            /\ key \in DOMAIN run[1].options.extra
            /\ run[1].options.extra[key] =
                  IF key \in DOMAIN call[1].options.extra
                  THEN call[1].options.extra[key] ELSE specs[i].default

\* the registry positions of the entries whose path is the tokens given
EntriesOf(tokens) ==
    {i \in 1..Len(loadedCommands) : Split(loadedCommands[i].command, SP) = tokens}

\* C15: entries with one command path all stay in the registry, and invoking
\* the path (its tokens, no help flag, a parse that does not throw) dispatches
\* to the first of them: that entry's class is constructed for that path.
C15_FirstDuplicateWins ==
    (/\ phase = "returned"
     /\ ~HasHelpFlag
     /\ Cardinality(EntriesOf(Positionals(argv))) >= 2)
    => LET first == loadedCommands[Least(EntriesOf(Positionals(argv)))] IN
       /\ loadedCommands = commands
       /\ run # NoRun
       /\ run[1].class = first.class
       /\ run[1].commandParts = Positionals(argv)
       /\ run[1].obj # first.instance

\* the registry positions of the entries loaded from an index file
IndexEntries ==
    {i \in 1..Len(loadedCommands) :
        \/ EndsWith(loadedCommands[i].path, <<"/">> \o F_index_ts)
        \/ EndsWith(loadedCommands[i].path, <<"/">> \o F_index_js)}

\* C16: the command loaded from <dir>/index.* has the path <dir>, and
\* invoking <dir> without a subcommand (no help flag, a parse that does not
\* throw) runs it: its class is constructed for the path [<dir>], whatever
\* other commands the directory holds.
C16_IndexIsParentHandler ==
    \A i \in IndexEntries :
        LET e == loadedCommands[i] IN
        (/\ phase = "returned"
         /\ ~HasHelpFlag
         /\ Positionals(argv) = <<e.command>>
         /\ EntriesOf(<<e.command>>) = {i})
        => /\ run # NoRun
           /\ run[1].class = e.class
           /\ run[1].commandParts = <<e.command>>

\* C17: when findProjectRoot finds no root for a dispatched command that
\* requires a project, a message naming <programName>.yml is printed, the
\* process exits with status 1 at once, and the command's run did not start.
C17_ProjectRequired ==
    \A j \in OutIdx :
        (out[j] = Ev("findProjectRoot", <<>>, "absent") /\ RequiresProject(run[1].class)) =>
            /\ call[1].options.rootDir = <<>>
            /\ j + 2 \in OutIdx
            /\ out[j + 1] = Ev("commandError", <<ProgramName \o <<".", "y", "m", "l">>>>,
                               "projectRequired")
            /\ out[j + 2] = Ev("exit", <<1>>, "exit")
            /\ exitCode = <<1>>
            /\ run[1].run = "none" /\ Count("run") = 0

\* the files scan hands to the importer, in depth-first listing order over
\* the search roots in their order
ImportableFiles ==
    SelectSeq(SearchedFiles,
              LAMBDA f : Recognized(f.name) /\ ~(Stem(f.name) = IndexName /\ f.segments = <<>>))

\* C19: at most one import is in flight; the imports are made in depth-first
\* listing order over the search roots in order; while one is in flight it is
\* the last one started, and the registry is exactly what the imports settled
\* before it give, in that order.
C19_SequentialDiscovery ==
    phase \in {"load", "group"} =>
        LET settled == Len(importLog) - Len(importing) IN
        /\ Len(importing) <= 1
        /\ Len(importLog) <= Len(ImportableFiles)
        /\ \A i \in 1..Len(importLog) : importLog[i] = ImportableFiles[i].path
        /\ importing # NoImport => importing[1].fullPath = importLog[Len(importLog)]
        /\ RegistryView = RegistryOf(SubSeq(ImportableFiles, 1, settled))
        /\ phase = "group" => importing = NoImport /\ Len(importLog) = Len(ImportableFiles)

C19_Witness ==
    /\ phase = "load"
    /\ importing # NoImport
    /\ Len(stack) = 2
    /\ Len(commands) = 1
    /\ Len(importLog) = 2

\* C20: once discovery has finished, no step changes the registry: neither
\* the loader's list nor the list getCommands() returns.
C20_RegistryFrozen ==
    [][phase \notin {"start", "load"} =>
          /\ loadedCommands' = loadedCommands
          /\ commands' = commands
          /\ loadedCommands = commands]_vars

C20_Witness ==
    /\ Len(loadedCommands) >= 3
    /\ loadedCommands = commands
    /\ run # NoRun /\ run[1].run = "threw"
    /\ helpers # <<>>
    /\ exitCode = <<1>>

(***************************************************************************)
(* Validation failures and the order of start()                            *)
(***************************************************************************)
\* the positions at which a "Missing required argument" message is printed
MissingMessages == {j \in OutIdx : out[j].t = "error" /\ out[j].k = "missingArg"}

\* C21: in a dispatch that printed "Missing required argument", the target
\* command is not constructed, and neither its init nor its run is started.
C21_MissingArgNoTarget ==
    MissingMessages # {} =>
        /\ run = NoRun
        /\ Count("construct") = 0 /\ Count("init") = 0 /\ Count("run") = 0

\* the exit was called by an operation itself, through BaseCommand.error
ExitByCommandError ==
    \E e \in OutIdx :
        /\ out[e].t = "exit" /\ e > 1
        /\ out[e - 1].t \in {"commandError", "unknownCommand"}

\* the target's init or run was started and has neither completed nor failed
TargetInFlight ==
    \/ io # {}
    \/ run # NoRun /\ (run[1].init = "pending" \/ run[1].run = "started")

\* C22: when process.exit is called by start(), by a dispatch closure or by
\* runCommand, no init or run of the invocation is in flight.  (A help
\* rendering is synchronous and has finished within the step that starts it.)
C22_NoExitInFlight ==
    (exitCode # NoExit /\ ~ExitByCommandError) => ~TargetInFlight

\* the positions at which "Unknown subcommand" is printed
UnknownMessages == {j \in OutIdx : out[j].t = "error" /\ out[j].k = "unknownSubcommand"}

\* C23 as stated: every validation message, for a missing required argument
\* or an unmatched subcommand, is followed by a help rendering before any
\* exit, and the process cannot end but with status 1.
C23_ValidationHelpThenExit ==
    \A j \in MissingMessages \cup UnknownMessages :
        /\ j + 2 \in OutIdx
        /\ out[j + 1].t = "runHelp"
        /\ out[j + 2].t \in {"help", "nativeHelp"}
        /\ ExitAfter(j + 2)
        /\ exitCode \in {NoExit, <<1>>}

\* C23, amended: a "Missing required argument" message is followed by the help
\* of the dispatched path before any exit; an "Unknown subcommand" message is
\* followed at once by the exit, without any help rendering; in both cases the
\* process cannot end but with status 1.
C23_ValidationFailure ==
    /\ \A j \in MissingMessages :
          /\ HelpRenderedAt(j + 1, DispatchedPath)
          /\ out[j + 1].k = "exit1"
          /\ ExitAfter(j + 2)
          /\ exitCode \in {NoExit, <<1>>}
          /\ jobs = <<>> => exitCode = <<1>>
    /\ \A j \in UnknownMessages :
          /\ j + 1 \in OutIdx
          /\ out[j + 1] = Ev("exit", <<1>>, "exit")
          /\ Count("runHelp") = 0 /\ Count("help") = 0 /\ Count("nativeHelp") = 0
          /\ exitCode = <<1>>

C23_Witness ==
    /\ NamespaceCall
    /\ HelpCommandClass # NoClass
    /\ UnknownMessages # {}
    /\ Count("runHelp") = 0
    /\ exitCode = <<1>>

\* the help query is not empty and names neither a command nor a namespace
UnknownQuery == argv # <<>> /\ Query # EmptyStr /\ ExactAt = {} /\ UnderAt = {}

\* C24 as stated: for a query that matches neither a command path nor a
\* namespace prefix, the help command prints nothing and does not end the
\* process.
C24_UnknownQuerySilent ==
    (phase = "helped" /\ UnknownQuery) =>
        /\ Count("unknownCommand") = 0
        /\ exitCode = NoExit

\* C24, amended: for such a query the help command prints the "Unknown
\* command: <query>" line and calls process.exit(1) itself; nothing else is
\* printed and nothing returns to the caller.
C24_UnknownQueryExits ==
    (phase = "helped" /\ UnknownQuery) =>
        /\ out = <<Ev("unknownCommand", argv, "unknown"), Ev("exit", <<1>>, "exit")>>
        /\ jobs = <<>>
        /\ exitCode = <<1>>

C24_Witness ==
    /\ phase = "helped"
    /\ UnknownQuery
    /\ loadedCommands # <<>>
    /\ Len(argv) = 2
    /\ exitCode = <<1>>

\* the grouping and the registration loop are over, or start() has thrown
GroupingOver == phase \notin {"start", "load", "group", "register"}

\* the grammar entries that hold the registry entry at position i
EntriesHolding(i) ==
    {g \in 1..Len(grammar) : loadedCommands[i] \in SeqRange(grammar[g].cmds)}

\* C25: once grouping and registration are over, every registry entry is in
\* the group of exactly one grammar entry, the one of its first path token;
\* there is exactly one grammar entry per distinct first token; an entry is a
\* leaf registration if and only if its group is one command whose path is the
\* root token, and else it is '<root> [subcommand] [...args]' and accepts
\* unknown options.
C25_GroupingPartition ==
    GroupingOver =>
        /\ \A i \in 1..Len(loadedCommands) :
              /\ Cardinality(EntriesHolding(i)) = 1
              /\ \A g \in EntriesHolding(i) :
                    grammar[g].root = Split(loadedCommands[i].command, SP)[1]
        /\ \A g, h \in 1..Len(grammar) : grammar[g].root = grammar[h].root => g = h
        /\ \A g \in 1..Len(grammar) :
              LET e == grammar[g] IN
              /\ e.cmds # <<>>
              /\ e.kind = "leaf" <=> (Len(e.cmds) = 1 /\ e.cmds[1].command = e.root)
              /\ e.kind = "leaf" => ~e.allowUnknownOptions
              /\ e.kind # "leaf" =>
                    /\ e.kind = "namespace"
                    /\ e.rawName = e.root \o Join(<<<<>>, <<"[", "s", "u", "b", "c", "o",
                                                            "m", "m", "a", "n", "d", "]">>,
                                                    <<"[", ".", ".", ".", "a", "r", "g",
                                                      "s", "]">>>>, <<SP>>)
                    /\ e.allowUnknownOptions

\* the grammar slot the claim gives for one ArgumentSpec
OptionalSlotOf(arg) ==
    IF EndsWith(arg.name, <<".", ".", ".">>)
    THEN <<"[", ".", ".", ".">> \o SubSeq(arg.name, 1, Len(arg.name) - 3) \o <<"]">>
    ELSE <<"[">> \o arg.name \o <<"]">>

\* the dispatch is for a leaf command, --help or -h is given and no positional
\* value is
LeafHelpWithoutValues ==
    /\ phase \in {"returned", "caught"}
    /\ Matched # <<>> /\ Matched[1].kind = "leaf"
    /\ HasHelpFlag
    /\ Tail(Positionals(argv)) = <<>>

\* C26: the grammar entry of a leaf command is its path followed by one slot
\* per ArgumentSpec, in declaration order, each in optional brackets whether or
\* not the spec is required; a leaf dispatch with --help and no positional
\* value is not rejected for its arguments: unless an option is at fault, the
\* action runs and renders the command's help, and no argument is reported
\* missing.
C26_LeafSlotsOptional ==
    /\ \A g \in 1..Len(grammar) :
          grammar[g].kind = "leaf" =>
             LET specs == ClassArgs(grammar[g].cmds[1].class)
                 toks == Split(grammar[g].rawName, SP)
             IN /\ Len(toks) = 1 + Len(specs)
                /\ toks[1] = grammar[g].cmds[1].command
                /\ \A i \in 1..Len(specs) : toks[i + 1] = OptionalSlotOf(specs[i])
    /\ LeafHelpWithoutValues =>
          IF phase = "caught"
          THEN MissingOptionValue(argv) \/ Includes(argv, O_dryRun)
          ELSE /\ LeafCall
               /\ HelpRenderedAt(2, <<call[1].root>>)
               /\ MissingMessages = {}

C26_Witness ==
    /\ LeafHelpWithoutValues
    /\ LeafCall
    /\ \E i \in 1..Len(ClassArgs(LeafCommand.class)) :
          /\ ClassArgs(LeafCommand.class)[i].required
          /\ IsVariadic(ClassArgs(LeafCommand.class)[i])
    /\ HelpRenderedAt(2, <<call[1].root>>)
    /\ out[2].k = "return"

\* the name of an ArgumentSpec without a trailing '...'
SpecKey(arg) ==
    IF EndsWith(arg.name, <<".", ".", ".">>)
    THEN SubSeq(arg.name, 1, Len(arg.name) - 3) ELSE arg.name

\* the positionals from index i onward, as the array of their tokens
RemainderFrom(positional, i) ==
    [present |-> TRUE, arr |-> TRUE,
     v |-> [n \in 1..(Len(positional) + 1 - i) |-> positional[n + i - 1].v[1]]]

\* C27: the options the target is constructed with hold, for every
\* ArgumentSpec whose positional value is present, that value under the spec's
\* name without '...'; for a variadic spec of a namespace child they hold the
\* remainder of the positionals from that index on, in order; the key of an
\* optional spec without a value is unset.
C27_ArgumentMapping ==
    run # NoRun =>
        LET specs == ClassArgs(run[1].class)
            given == call[1].positional
            got == run[1].options.args
        IN \A i \in 1..Len(specs) :
              IF i <= Len(given) /\ given[i].present
              THEN /\ SpecKey(specs[i]) \in DOMAIN got
                   /\ got[SpecKey(specs[i])] =
                         IF NamespaceCall /\ EndsWith(specs[i].name, <<".", ".", ".">>)
                         THEN RemainderFrom(given, i)
                         ELSE given[i]
              ELSE ~specs[i].required => SpecKey(specs[i]) \notin DOMAIN got

C27_Witness ==
    /\ NamespaceCall
    /\ run # NoRun /\ run[1].class = "Cat"
    /\ Len(call[1].positional) = 2
    /\ call[1].positional[1] # call[1].positional[2]
    /\ run[1].ranWith # <<>>
    /\ Len(run[1].ranWith[1].args[<<"f">>].v) = 2

\* the printed option line raw shows the option name
Lists(raw, name) == raw = name \/ StartsWith(raw, name \o <<",">>)

\* the Options blocks printed so far, each as the set of its raw names
OptionBlocks == {SeqRange(out[j].a) : j \in {i \in OutIdx : out[i].t = "options"}}

\* C28: the help of an exact command path has an Options block, and the block
\* lists --help, --version, --root-dir <path> and --debug, whether the list is
\* the parser record's or is rebuilt from the class.
C28_GlobalOptionsListed ==
    (phase = "helped" /\ argv # <<>> /\ ExactAt # {}) =>
        /\ OptionBlocks # {}
        /\ \A block \in OptionBlocks :
              \A i \in 1..Len(HelpGlobals) :
                 \E raw \in block : Lists(raw, HelpGlobals[i])

\* every search root start() chose has been loaded to its end
AllRootsLoaded ==
    /\ phase \notin {"start", "load"}
    /\ rootIdx > Len(commandsDirs)
    /\ stack = <<>> /\ importing = NoImport
    /\ Len(importLog) = Len(ImportableFiles)
    /\ loadedCommands = commands

\* the distinct first path tokens of the registry
FirstTokens == {Split(loadedCommands[i].command, SP)[1] : i \in 1..Len(loadedCommands)}

\* one grammar entry per first token of the registry is installed
AllEntriesInstalled ==
    /\ Len(grammar) = Cardinality(FirstTokens)
    /\ {grammar[g].root : g \in 1..Len(grammar)} = FirstTokens

\* C29: a grammar entry is registered only when every search root is loaded
\* and the help lookup is done; the interception check comes only when every
\* grammar entry is installed; the parser is invoked, and a dispatch closure
\* or a help rendering runs, only after that check, with the registry complete.
C29_StartOrder ==
    /\ (grammar # <<>> \/ phase = "register") =>
          /\ AllRootsLoaded
          /\ (HelpCommandClass # NoClass) <=>
                \E i \in 1..Len(loadedCommands) : loadedCommands[i].command = HelpName
    /\ phase \in {"intercept", "intercepted", "returned", "caught"} =>
          /\ AllRootsLoaded
          /\ AllEntriesInstalled
    /\ (out # <<>> \/ call # NoCall \/ run # NoRun \/ jobs # <<>> \/ exitCode # NoExit) =>
          /\ phase \in {"intercepted", "returned", "caught"}
          /\ AllRootsLoaded
          /\ AllEntriesInstalled
    /\ (\E j \in OutIdx : out[j].t = "parse") =>
          /\ phase \in {"returned", "caught"}
          /\ out[1].t = "parse"
          /\ ~(HasHelpFlag /\ ~HasNonFlag)

C29_Witness ==
    /\ phase = "returned"
    /\ Len(commandsDirs) = 2 /\ fs[2].exists
    /\ HelpCommandClass # NoClass
    /\ Len(grammar) >= 2
    /\ call # NoCall /\ run # NoRun
    /\ exitCode = <<0>>

\* the ArgumentSpecs of the dispatched command
DispatchedSpecs ==
    IF LeafCall THEN ClassArgs(LeafCommand.class)
    ELSE ClassArgs(FindCommand(loadedCommands,
                               Join(<<call[1].root, call[1].subcommand[1]>>, <<SP>>))[1].class)

\* C30: a dispatch prints at most one "Missing required argument" message and
\* renders help at most once; the message names the first required
\* ArgumentSpec, in declaration order, that has no value.
C30_OneMissingMessage ==
    MissingMessages # {} =>
        /\ Cardinality(MissingMessages) = 1
        /\ Count("runHelp") = 1
        /\ Count("help") + Count("nativeHelp") = 1
        /\ LET missing == MissingIn(DispatchedSpecs, call[1].positional)
               first == CHOOSE i \in missing : \A k \in missing : i <= k
           IN \A j \in MissingMessages : out[j].a = <<SpecKey(DispatchedSpecs[first])>>
====
